---------------------------- MODULE Spec2Model ----------------------------
(***************************************************************************)
(* A model of gostcrypto's Streebog hasher (gosthash/gost_34_11_2012.py)   *)
(* and of its GOST 34.10-2012 signature engine                             *)
(* (gostsignature/gost_34_10_2012.py).                                     *)
(*                                                                         *)
(* Representation.  A byte object (bytes, bytearray) is a sequence of      *)
(* integers in 0..255, first byte first.  The hasher is modelled at its    *)
(* real width: 64-byte blocks, the real tables.  Python's integers are     *)
(* unbounded and TLC's have 32 bits, so                                    *)
(*   - a 64-bit word of _hash_l is kept as the set of its set bit          *)
(*     positions (0 = least significant) and ^ is the symmetric difference;*)
(*   - the signature engine is modelled on curves whose numbers fit: the   *)
(*     byte width `size` of mode 256 is 1 (for 32) and that of mode 512 is *)
(*     2 (for 64), and the bounds on q scale with it (2^(8*size-2) for     *)
(*     2^254, 2^(8*size-4) for 2^508, 2^(8*size) for 2^256 and 2^512);     *)
(*   - products are reduced mod n factor by factor, which leaves the value *)
(*     of an exact (x * y) % n unchanged.                                  *)
(*                                                                         *)
(* TLC evaluates an operator's arguments only when they are used.  The     *)
(* loops below compare each iteration's values (Now) before they iterate,  *)
(* so that every iteration is computed before the next one starts.         *)
(***************************************************************************)
EXTENDS Integers, Sequences, FiniteSets, TLC

\* TRUE; evaluating it computes v at this point of the evaluation
Now(v) == v = v

(***************************************************************************)
(* gostcrypto.utils: the helpers both modules import                       *)
(***************************************************************************)


(***************************************************************************)
(* Bounds of the model                                                     *)
(***************************************************************************)

\* calls made on a hash object after new()
MaxCalls == 3

\* the calls made on a hash object and its clone after new()
MaxLife == 2

\* the multiples of the base point that _mul_point is called on
MaxPoint == 3

\* the blocks that the compression function is applied to are numbered 0 .. MaxSeed
MaxSeed == 4

\* the calls made after new() on the hash object whose counters are followed
MaxOps == 2

\* _invert is applied to the values -MaxValue .. MaxValue
MaxValue == 45

\* and to the moduli 2 .. MaxModulus
MaxModulus == 20

\* the curves given by e, d, u, v alone are taken over every prime p, 3 < p <= MaxPrime
MaxPrime == 11
_BLOCK_SIZE == 64

\* utils.S_BOX: the substitution pi of GOST R 34.11-2012
S_BOX ==
  <<
    252, 238, 221,  17, 207, 110,  49,  22, 251, 196, 250, 218,  35, 197,   4,  77,
    233, 119, 240, 219, 147,  46, 153, 186,  23,  54, 241, 187,  20, 205,  95, 193,
    249,  24, 101,  90, 226,  92, 239,  33, 129,  28,  60,  66, 139,   1, 142,  79,
      5, 132,   2, 174, 227, 106, 143, 160,   6,  11, 237, 152, 127, 212, 211,  31,
    235,  52,  44,  81, 234, 200,  72, 171, 242,  42, 104, 162, 253,  58, 206, 204,
    181, 112,  14,  86,   8,  12, 118,  18, 191, 114,  19,  71, 156, 183,  93, 135,
     21, 161, 150,  41,  16, 123, 154, 199, 243, 145, 120, 111, 157, 158, 178, 177,
     50, 117,  25,  61, 255,  53, 138, 126, 109,  84, 198, 128, 195, 189,  13,  87,
    223, 245,  36, 169,  62, 168,  67, 201, 215, 121, 214, 246, 124,  34, 185,   3,
    224,  15, 236, 222, 122, 148, 176, 188, 220, 232,  40,  80,  78,  51,  10,  74,
    167, 151,  96, 115,  30,   0,  98,  68,  26, 184,  56, 130, 100, 159,  38,  65,
    173,  69,  70, 146,  39,  94,  85,  47, 140, 163, 165, 125, 105, 213, 149,  59,
      7,  88, 179,  64, 134, 172,  29, 247,  48,  55, 107, 228, 136, 217, 231, 137,
    225,  27, 131,  73,  76,  63, 248, 254, 141,  83, 170, 144, 202, 216, 133,  97,
     32, 113, 103, 164,  45,  43,   9,  91, 203, 155,  37, 208, 190, 229, 108,  82,
     89, 166, 116, 210, 230, 244, 180, 192, 209, 102, 175, 194,  57,  75,  99, 182 >>

\* x ^ y for two hexadecimal digits
XorNibble ==
  <<
    <<  0,  1,  2,  3,  4,  5,  6,  7,  8,  9, 10, 11, 12, 13, 14, 15 >>,
    <<  1,  0,  3,  2,  5,  4,  7,  6,  9,  8, 11, 10, 13, 12, 15, 14 >>,
    <<  2,  3,  0,  1,  6,  7,  4,  5, 10, 11,  8,  9, 14, 15, 12, 13 >>,
    <<  3,  2,  1,  0,  7,  6,  5,  4, 11, 10,  9,  8, 15, 14, 13, 12 >>,
    <<  4,  5,  6,  7,  0,  1,  2,  3, 12, 13, 14, 15,  8,  9, 10, 11 >>,
    <<  5,  4,  7,  6,  1,  0,  3,  2, 13, 12, 15, 14,  9,  8, 11, 10 >>,
    <<  6,  7,  4,  5,  2,  3,  0,  1, 14, 15, 12, 13, 10, 11,  8,  9 >>,
    <<  7,  6,  5,  4,  3,  2,  1,  0, 15, 14, 13, 12, 11, 10,  9,  8 >>,
    <<  8,  9, 10, 11, 12, 13, 14, 15,  0,  1,  2,  3,  4,  5,  6,  7 >>,
    <<  9,  8, 11, 10, 13, 12, 15, 14,  1,  0,  3,  2,  5,  4,  7,  6 >>,
    << 10, 11,  8,  9, 14, 15, 12, 13,  2,  3,  0,  1,  6,  7,  4,  5 >>,
    << 11, 10,  9,  8, 15, 14, 13, 12,  3,  2,  1,  0,  7,  6,  5,  4 >>,
    << 12, 13, 14, 15,  8,  9, 10, 11,  4,  5,  6,  7,  0,  1,  2,  3 >>,
    << 13, 12, 15, 14,  9,  8, 11, 10,  5,  4,  7,  6,  1,  0,  3,  2 >>,
    << 14, 15, 12, 13, 10, 11,  8,  9,  6,  7,  4,  5,  2,  3,  0,  1 >>,
    << 15, 14, 13, 12, 11, 10,  9,  8,  7,  6,  5,  4,  3,  2,  1,  0 >> >>

_TAU ==
  <<
      0,   8,  16,  24,  32,  40,  48,  56,
      1,   9,  17,  25,  33,  41,  49,  57,
      2,  10,  18,  26,  34,  42,  50,  58,
      3,  11,  19,  27,  35,  43,  51,  59,
      4,  12,  20,  28,  36,  44,  52,  60,
      5,  13,  21,  29,  37,  45,  53,  61,
      6,  14,  22,  30,  38,  46,  54,  62,
      7,  15,  23,  31,  39,  47,  55,  63 >>

\* each 64-bit constant as its eight bytes, most significant first (as written)
_A ==
  <<
    << 142,  32, 250, 167,  43, 160, 180, 112 >>,
    <<  71,  16, 125, 221, 155,  80,  90,  56 >>,
    << 173,   8, 176, 224, 195,  40,  45,  28 >>,
    << 216,   4,  88, 112, 239,  20, 152,  14 >>,
    << 108,   2,  44,  56, 249,  10,  76,   7 >>,
    <<  54,   1,  22,  28, 242,   5,  38, 141 >>,
    <<  27, 142,  11,  14, 121, 140,  19, 200 >>,
    << 131,  71, 139,   7, 178,  70, 135, 100 >>,
    << 160,  17, 211, 128, 129, 142, 143,  64 >>,
    <<  80, 134, 231,  64, 206,  71, 201,  32 >>,
    <<  40,  67, 253,  32, 103, 173, 234,  16 >>,
    <<  20, 175, 240,  16, 189, 216, 117,   8 >>,
    <<  10, 217, 120,   8, 208, 108, 180,   4 >>,
    <<   5, 226,  60,   4, 104,  54,  90,   2 >>,
    << 140, 113,  30,   2,  52,  27,  45,   1 >>,
    <<  70, 182,  15,   1,  26, 131, 152, 142 >>,
    << 144, 218, 181,  42,  56, 122, 231, 111 >>,
    <<  72, 109, 212,  21,  28,  61, 253, 185 >>,
    <<  36, 184, 106, 132,  14, 144, 240, 210 >>,
    <<  18,  92,  53,  66,   7,  72, 120, 105 >>,
    <<   9,  46, 148,  33, 141,  36,  60, 186 >>,
    << 138,  23,  74, 158, 200,  18,  30,  93 >>,
    <<  69, 133,  37,  79, 100,   9,  15, 160 >>,
    << 172, 204, 156, 169,  50, 138, 137,  80 >>,
    << 157,  77, 240,  93,  95, 102,  20,  81 >>,
    << 192, 168, 120, 160, 161,  51,  10, 166 >>,
    <<  96,  84,  60,  80, 222, 151,   5,  83 >>,
    <<  48,  42,  30,  40, 111, 197, 140, 167 >>,
    <<  24,  21,  15,  20, 185, 236,  70, 221 >>,
    <<  12, 132, 137,  10, 210, 118,  35, 224 >>,
    <<   6,  66, 202,   5, 105,  59, 159, 112 >>,
    <<   3,  33, 101, 140, 186, 147, 193,  56 >>,
    << 134,  39,  93, 240, 156, 232, 170, 168 >>,
    <<  67, 157, 160, 120,  78, 116,  85,  84 >>,
    << 175, 192,  80,  60,  39,  58, 164,  42 >>,
    << 217,  96,  40,  30, 157,  29,  82,  21 >>,
    << 226,  48,  20,  15, 192, 128,  41, 132 >>,
    << 113,  24,  10, 137,  96,  64, 154,  66 >>,
    << 182,  12,   5, 202,  48,  32,  77,  33 >>,
    <<  91,   6, 140, 101,  24,  16, 168, 158 >>,
    <<  69, 108,  52, 136, 122,  56,   5, 185 >>,
    << 172,  54,  26,  68,  61,  28, 140, 210 >>,
    <<  86,  27,  13,  34, 144,  14,  70, 105 >>,
    <<  43, 131, 136,  17,  72,   7,  35, 186 >>,
    << 155, 207,  68, 134,  36, 141, 159,  93 >>,
    << 195, 233,  34,  67,  18, 200, 193, 160 >>,
    << 239, 250,  17, 175,   9, 100, 238,  80 >>,
    << 249, 125, 134, 217, 138,  50, 119,  40 >>,
    << 228, 250,  32,  84, 168,  11,  50, 156 >>,
    << 114, 125,  16,  42,  84, 139,  25,  78 >>,
    <<  57, 176,   8,  21,  42, 203, 130,  39 >>,
    << 146,  88,   4, 132,  21, 235,  65, 157 >>,
    <<  73,  44,   2,  66, 132, 251, 174, 192 >>,
    << 170,  22,   1,  33,  66, 243,  87,  96 >>,
    <<  85,  11, 142, 158,  33, 247, 165,  48 >>,
    << 164, 139,  71,  79, 158, 245, 220,  24 >>,
    << 112, 166, 165, 110,  36,  64,  89, 142 >>,
    <<  56,  83, 220,  55,  18,  32, 162,  71 >>,
    <<  28, 167, 110, 149,   9,  16,  81, 173 >>,
    <<  14, 221,  55, 196, 138,   8, 166, 216 >>,
    <<   7, 224, 149,  98,  69,   4,  83, 108 >>,
    << 141, 112, 196,  49, 172,   2, 167,  54 >>,
    << 200,  56,  98, 150,  86,   1, 221,  27 >>,
    << 100,  28,  49,  75,  43, 142, 224, 131 >> >>

_C ==
  << <<
         7,  69, 166, 242,  89, 101, 128, 221,
        35,  77, 116, 204,  54, 116, 118,   5,
        21, 211,  96, 164,   8,  42,  66, 162,
         1, 105, 103, 146, 145, 224, 124,  75,
       252, 196, 133, 117, 141, 184,  78, 113,
        22, 208,  69,  46,  67, 118, 106,  47,
        31, 124, 101, 192, 129,  47, 203, 235,
       233, 218, 202,  30, 218,  91,   8, 177 >>,
     <<
       183, 155, 177,  33, 112,   4, 121, 230,
        86, 205, 203, 215,  27, 162, 221,  85,
       202, 167,  10, 219, 194,  97, 181,  92,
        88, 153, 214,  18, 107,  23, 181, 154,
        49,   1, 181,  22,  15,  94, 213,  97,
       152,  43,  35,  10, 114, 234, 254, 243,
       215, 181, 112,  15,  70, 157, 227,  79,
        26,  47, 157, 169, 138, 181, 163, 111 >>,
     <<
       178,  10, 186,  10, 245, 150,  30, 153,
        49, 219, 122, 134,  67, 244, 182, 194,
         9, 219,  98,  96,  55,  58, 201, 193,
       177, 158,  53, 144, 228,  15, 226, 211,
       123, 123,  41, 177,  20, 117, 234, 242,
       139,  31, 156,  82,  95,  94, 241,   6,
        53, 132,  61, 106,  40, 252,  57,  10,
       199,  47, 206,  43, 172, 220, 116, 245 >>,
     <<
        46, 209, 227, 132, 188, 190,  12,  34,
       241,  55, 232, 147, 161, 234,  83,  52,
       190,   3,  82, 147,  51,  19, 183, 216,
       117, 214,   3, 237, 130,  44, 215, 169,
        63,  53,  94, 104, 173,  28, 114, 157,
       125,  60,  92,  51, 126, 133, 142,  72,
       221, 228, 113,  93, 160, 225,  72, 249,
       210, 102,  21, 232, 179, 223,  31, 239 >>,
     <<
        87, 254, 108, 124, 253,  88,  23,  96,
       245,  99, 234, 169, 126, 162,  86, 122,
        22,  26,  39,  35, 183,   0, 255, 223,
       163, 245,  58,  37,  71,  23, 205, 191,
       189, 255,  15, 128, 215,  53, 158,  53,
        74,  16, 134,  22,  31,  28,  21, 127,
        99,  35, 169, 108,  12,  65,  63, 154,
       153,  71,  71, 173, 172, 107, 234,  75 >>,
     <<
       110, 125, 100,  70, 122,  64, 104, 250,
        53,  79, 144,  54, 114, 197, 113, 191,
       182, 198, 190, 194, 102,  31, 242,  10,
       180, 183, 154,  28, 183, 166, 250, 207,
       198, 142, 240, 154, 180, 154, 127,  24,
       108, 164,  66,  81, 249, 196, 102,  45,
       192,  57,  48, 122,  59, 195, 164, 111,
       217, 211,  58,  29, 174, 174,  79, 174 >>,
     <<
       147, 212,  20,  58,  77,  86, 134, 136,
       243,  74,  60, 162,  76,  69,  23,  53,
         4,   5,  74,  40, 131, 105,  71,   6,
        55,  44, 130,  45, 197, 171, 146,   9,
       201, 147, 122,  25,  51,  62,  71, 211,
       201, 135, 191, 230, 199, 198, 158,  57,
        84,   9,  36, 191, 254, 134, 172,  81,
       236, 197, 170, 238,  22,  14, 199, 244 >>,
     <<
        30, 231,   2, 191, 212,  13, 127, 164,
       217, 168,  81,  89,  53, 194, 172,  54,
        47, 196, 165, 209,  43, 141, 209, 105,
       144,   6, 155, 146, 203,  43, 137, 244,
       154, 196, 219,  77,  59,  68, 180, 137,
        30, 222,  54, 156, 113, 248, 183,  78,
        65,  65, 110,  12,   2, 170, 231,   3,
       167, 201, 147,  77,  66,  91,  31, 155 >>,
     <<
       219,  90,  35, 131,  81,  68,  97, 114,
        96,  42,  31, 203, 146, 220,  56,  14,
        84, 156,   7, 166, 154, 138,  43, 123,
       177, 206, 178, 219,  11,  68,  10, 128,
       132,   9,  13, 224, 183,  85, 217,  60,
        36,  66, 137,  37,  27,  58, 125,  58,
       222,  95,  22, 236, 216, 154,  76, 148,
       155,  34,  49,  22,  84,  90, 143,  55 >>,
     <<
       237, 156,  69, 152, 251, 199, 180, 116,
       195, 182,  59,  21, 209, 250, 152,  54,
       244,  82, 118,  59,  48, 108,  30, 122,
        75,  51, 105, 175,   2, 103, 231, 159,
         3,  97,  51,  27, 138, 225, 255,  31,
       219, 120, 138, 255,  28, 231,  65, 137,
       243, 243, 228, 178,  72, 229,  42,  56,
        82, 111,   5, 128, 166, 222, 190, 171 >>,
     <<
        27,  45, 243, 129, 205, 164, 202, 107,
        93, 216, 111, 192,  74,  89, 162, 222,
       152, 110,  71, 125,  29, 205, 186, 239,
       202, 185,  72, 234, 239, 113,  29, 138,
       121, 102, 132,  20,  33, 128,   1,  32,
        97,   7, 171, 235, 187, 107, 250, 216,
       148, 254,  90,  99, 205, 198,   2,  48,
       251, 137, 200, 239, 208, 158, 205, 123 >>,
     <<
        32, 215,  27, 241,  74, 146, 188,  72,
       153,  27, 178, 217, 213,  23, 244, 250,
        82,  40, 225, 136, 170, 164,  29, 231,
       134, 204, 145,  24, 157, 239, 128,  93,
       155, 159,  33,  48, 212,  18,  32, 248,
       119,  29, 223, 188,  50,  60, 164, 205,
       122, 177,  73,   4, 176, 128,  19, 210,
       186,  49,  22, 241, 103, 231, 142,  55 >> >>

\* a ^ b for two bytes, one hexadecimal digit at a time
XorByte(a, b) ==
  16 * XorNibble[(a \div 16) + 1][(b \div 16) + 1] + XorNibble[(a % 16) + 1][(b % 16) + 1]

\* utils.add_xor: the bytewise XOR of two byte objects of equal length
add_xor(op_a, op_b) ==
  SubSeq([i \in 1..Len(op_a) |-> XorByte(op_a[i], op_b[i])], 1, Len(op_a))

\* bytearray(n), and utils.zero_fill(n): n zero bytes
zero_fill(n) ==
  SubSeq([i \in 1..n |-> 0], 1, n)

\* utils.bytearray_to_int: the big-endian unsigned value of a byte object
RECURSIVE bytearray_to_int(_)
bytearray_to_int(b) ==
  IF Len(b) = 0 THEN 0
  ELSE 256 * bytearray_to_int(SubSeq(b, 1, Len(b) - 1)) + b[Len(b)]

\* utils.int_to_bytearray: the big-endian encoding of number on size bytes
int_to_bytearray(number, size) ==
  SubSeq([i \in 1..size |-> (number \div (256 ^ (size - i))) % 256], 1, size)

\* utils.compare: equality of two byte objects
compare(op_a, op_b) ==
  op_a = op_b

\* utils.compare_to_zero: whether every byte is zero
compare_to_zero(op_a) ==
  \A i \in 1..Len(op_a) : op_a[i] = 0

(***************************************************************************)
(* gosthash/gost_34_11_2012.py                                             *)
(***************************************************************************)

_V_0 == zero_fill(_BLOCK_SIZE)

_V_512 == SubSeq([i \in 1.._BLOCK_SIZE |-> IF i = 2 THEN 2 ELSE 0], 1, _BLOCK_SIZE)

\* one iteration of _hash_add_512's loop: op_c is the sum at this byte, carry in
Add512Byte(op_c, result) ==
  << op_c, Append(result, op_c % 256) >>

\* _hash_add_512's loop over bytes i .. stop - 1.  st = <<op_c, result>>: op_c is
\* the sum at the byte before, whose high part carries, and result the bytes so far.
RECURSIVE Add512Run(_, _, _, _, _)
Add512Run(op_a, op_b, i, stop, st) ==
  IF i = stop \/ ~Now(st) THEN st
  ELSE Add512Run(op_a, op_b, i + 1, stop,
                 Add512Byte(op_a[i + 1] + op_b[i + 1] + (st[1] \div 256), st[2]))

\* _hash_add_512's loop from byte i on, taken eight bytes at a time
RECURSIVE Add512From(_, _, _, _)
Add512From(op_a, op_b, i, st) ==
  IF i = _BLOCK_SIZE \/ ~Now(st) THEN st[2]
  ELSE Add512From(op_a, op_b, i + 8, Add512Run(op_a, op_b, i, i + 8, st))

_hash_add_512(op_a, op_b) ==
  Add512From(op_a, op_b, 0, << 0, << >> >>)

_hash_p(data) ==
  SubSeq([i \in 1.._BLOCK_SIZE |-> data[_TAU[i] + 1]], 1, _BLOCK_SIZE)

_hash_s(data) ==
  SubSeq([i \in 1.._BLOCK_SIZE |-> S_BOX[data[i] + 1]], 1, _BLOCK_SIZE)

\* _A[j] as a 64-bit word: the set of its set bit positions
WordOfA(j) ==
  {t \in 0..63 : (_A[j + 1][8 - (t \div 8)] \div (2 ^ (t % 8))) % 2 = 1}

AWords == SubSeq([j \in 1.._BLOCK_SIZE |-> WordOfA(j - 1)], 1, _BLOCK_SIZE)

\* x ^ y for two 64-bit words
XorWord(x, y) ==
  (x \ y) \cup (y \ x)

\* the inner loop of _hash_l, eight iterations of it: those that shift out the
\* bits of byte kb of the lane (its bytes are taken least significant first, by
\* unpack('<Q')), from its bit b on.  Iteration t = 8 * kb + b has j = 63 - t.
RECURSIVE LaneBits(_, _, _, _)
LaneBits(byte, kb, b, result_64) ==
  IF b = 8 \/ Cardinality(result_64) < 0 THEN result_64
  ELSE LaneBits(byte, kb, b + 1,
                IF (byte \div (2 ^ b)) % 2 = 1
                THEN XorWord(result_64, AWords[(_BLOCK_SIZE - 1 - (8 * kb + b)) + 1])
                ELSE result_64)

\* the inner loop of _hash_l from byte kb of the lane on
RECURSIVE LaneLoop(_, _, _)
LaneLoop(lane, kb, result_64) ==
  IF kb = 8 \/ Cardinality(result_64) < 0 THEN result_64
  ELSE LaneLoop(lane, kb + 1, LaneBits(lane[kb + 1], kb, 0, result_64))

\* bit n of a 64-bit word
Bit(w, n) ==
  IF n \in w THEN 1 ELSE 0

\* byte k (0 = least significant) of a 64-bit word
WordByte(w, k) ==
  Bit(w, 8 * k) + 2 * Bit(w, 8 * k + 1) + 4 * Bit(w, 8 * k + 2) + 8 * Bit(w, 8 * k + 3)
    + 16 * Bit(w, 8 * k + 4) + 32 * Bit(w, 8 * k + 5) + 64 * Bit(w, 8 * k + 6)
    + 128 * Bit(w, 8 * k + 7)

\* pack('<Q', w)
PackQ(w) ==
  SubSeq([k \in 1..8 |-> WordByte(w, k - 1)], 1, 8)

\* result_64 of each of the eight iterations of _hash_l's outer loop
LaneWords(data) ==
  SubSeq([i \in 1..8 |-> LaneLoop(SubSeq(data, (i - 1) * 8 + 1, (i - 1) * 8 + 8), 0, {})], 1, 8)

\* result of _hash_l's outer loop: the packed words, appended in order
HashLPack(words) ==
  PackQ(words[1]) \o PackQ(words[2]) \o PackQ(words[3]) \o PackQ(words[4])
    \o PackQ(words[5]) \o PackQ(words[6]) \o PackQ(words[7]) \o PackQ(words[8])

\* _hash_l once the eight words are bound
HashLWords(data, words) ==
  IF Now(words) THEN HashLPack(words) ELSE data

_hash_l(data) ==
  IF Now(data) THEN HashLWords(data, LaneWords(data)) ELSE data

_hash_get_key(k, i) ==
  _hash_l(_hash_p(_hash_s(add_xor(k, _C[i + 1]))))

\* one round of _hash_e's loop under the round's key: the key and the state after it
HashERound(key, internal) ==
  << key, add_xor(_hash_l(_hash_p(_hash_s(internal))), key) >>

\* the loop of _hash_e from round i on; st = <<key, internal>>
RECURSIVE HashELoop(_, _)
HashELoop(st, i) ==
  IF i = 12 \/ ~Now(st) THEN st[2]
  ELSE HashELoop(HashERound(_hash_get_key(st[1], i), st[2]), i + 1)

_hash_e(k, data) ==
  HashELoop(<< k, add_xor(k, data) >>, 0)

\* _hash_g with _hash_e applied to hash_h: what C23 is tested against
HashGKeyOnH(k, hash_h, data) ==
  IF Now(k) THEN add_xor(add_xor(_hash_e(k, hash_h), hash_h), data) ELSE k

\* _hash_g once k = L(P(S(hash_n ^ hash_h))) is bound
HashGKey(k, hash_h, data) ==
  IF Now(k) THEN add_xor(add_xor(_hash_e(k, data), hash_h), data) ELSE k

_hash_g(hash_h, hash_n, data) ==
  HashGKey(_hash_l(_hash_p(_hash_s(add_xor(hash_n, hash_h)))), hash_h, data)

\* GOST34112012.digest_size
digest_size(self) ==
  IF self._name = "streebog512" THEN 64 ELSE 32

\* the body of the loop with sigma taken as the block, not added to: what C25
\* is tested against
UpdateBlockNotSummed(self, block) ==
  [self EXCEPT !._hash_h = _hash_g(self._hash_h, self._hash_n, block),
               !._hash_n = _hash_add_512(self._hash_n, _V_512),
               !._hash_sigma = block]

\* the body of update's loop for one block
UpdateBlock(self, block) ==
  [self EXCEPT !._hash_h = _hash_g(self._hash_h, self._hash_n, block),
               !._hash_n = _hash_add_512(self._hash_n, _V_512),
               !._hash_sigma = _hash_add_512(self._hash_sigma, block)]

\* the loop of update over the complete blocks of data, from offset i on
RECURSIVE UpdateLoop(_, _, _)
UpdateLoop(self, data, i) ==
  IF i >= self._num_block * _BLOCK_SIZE \/ ~Now(self) THEN self
  ELSE UpdateLoop(UpdateBlock(self, SubSeq(data, i + 1, i + _BLOCK_SIZE)), data,
                  i + _BLOCK_SIZE)

\* the end of update: the tail is kept only if the bytes at hand were not a whole
\* number of blocks
UpdateTail(self, data) ==
  IF self._pad_block_size < _BLOCK_SIZE
  THEN [self EXCEPT !._buff =
          SubSeq(data, Len(data) - (_BLOCK_SIZE - self._pad_block_size) + 1, Len(data))]
  ELSE self

\* update once data = self._buff + data is bound
UpdateData(self, data) ==
  UpdateTail([UpdateLoop([self EXCEPT !._num_block = Len(data) \div _BLOCK_SIZE], data, 0)
                EXCEPT !._pad_block_size = _BLOCK_SIZE - (Len(data) % _BLOCK_SIZE)],
             data)

\* GOST34112012.update, for a byte object data: the hasher afterwards
update(self, data) ==
  IF Now(self) /\ Now(data) THEN UpdateData(self, self._buff \o data) ELSE self

\* GOST34112012.__init__ and reset: the attributes at construction
InitialAttributes(name) ==
  [_name |-> name,
   _buff |-> <<>>,
   _num_block |-> 0,
   _pad_block_size |-> 0,
   _hash_h |-> IF name = "streebog256"
               THEN SubSeq([i \in 1.._BLOCK_SIZE |-> 1], 1, _BLOCK_SIZE)
               ELSE zero_fill(_BLOCK_SIZE),
   _hash_n |-> zero_fill(_BLOCK_SIZE),
   _hash_sigma |-> zero_fill(_BLOCK_SIZE)]

\* GOST34112012.__init__
GOST34112012(name, data) ==
  IF data # <<>> THEN update(InitialAttributes(name), data) ELSE InitialAttributes(name)

\* reset that leaves the buffer: what C14 is tested against
ResetKeepsBuffer(self) ==
  [InitialAttributes(self._name) EXCEPT !._buff = self._buff]

\* GOST34112012.reset
reset(self) ==
  InitialAttributes(self._name)

\* GOST34112012.copy: deepcopy, a value of its own
copy(self) ==
  self

\* hash_final's block `internal`: the bit length of the buffered tail, low byte
\* first
TailBits(self) ==
  SubSeq([i \in 1.._BLOCK_SIZE |->
            IF i = 1 THEN (Len(self._buff) * 8) % 256
            ELSE IF i = 2 THEN ((Len(self._buff) * 8) \div 256) % 256
            ELSE 0], 1, _BLOCK_SIZE)

\* hash_final's padding of the buffer: 0x01, then zeros up to a block
FinalPad(self) ==
  [self EXCEPT
     !._pad_block_size = _BLOCK_SIZE - Len(self._buff),
     !._buff = IF _BLOCK_SIZE - Len(self._buff) <= _BLOCK_SIZE
               THEN self._buff \o <<1>> \o
                    (IF _BLOCK_SIZE - Len(self._buff) - 1 > 0
                     THEN zero_fill(_BLOCK_SIZE - Len(self._buff) - 1) ELSE <<>>)
               ELSE self._buff]

\* hash_final adding to _hash_n before it compresses the padded block: what
\* C24 is tested against
FinalBlockCountedFirst(self, internal) ==
  [self EXCEPT !._hash_h = _hash_g(self._hash_h, _hash_add_512(self._hash_n, internal),
                                   self._buff),
               !._hash_n = _hash_add_512(self._hash_n, internal),
               !._hash_sigma = _hash_add_512(self._hash_sigma, self._buff)]

\* hash_final's three assignments on the padded block
FinalBlock(self, internal) ==
  [self EXCEPT !._hash_h = _hash_g(self._hash_h, self._hash_n, self._buff),
               !._hash_n = _hash_add_512(self._hash_n, internal),
               !._hash_sigma = _hash_add_512(self._hash_sigma, self._buff)]

FinalN(self) ==
  IF Now(self) THEN [self EXCEPT !._hash_h = _hash_g(self._hash_h, _V_0, self._hash_n)]
  ELSE self

FinalSigma(self) ==
  IF Now(self) THEN [self EXCEPT !._hash_h = _hash_g(self._hash_h, _V_0, self._hash_sigma)]
  ELSE self

\* GOST34112012.hash_final
hash_final(self) ==
  FinalSigma(FinalN(FinalBlock(FinalPad(self), TailBits(self))))

\* GOST34112012.get_hash
get_hash(self) ==
  SubSeq(self._hash_h, _BLOCK_SIZE - digest_size(self) + 1, _BLOCK_SIZE)

\* GOST34112012.digest
digest(self) ==
  IF Now(self) THEN get_hash(hash_final(copy(self))) ELSE << >>

\* the arguments of update and new as Python objects: [type, bytes], type being
\* the Python type of the object and bytes its content

\* isinstance(data, (bytes, bytearray))
IsByteObject(data) ==
  data.type \in {"bytes", "bytearray"}

\* data != bytearray(b''): a bytearray compares by content with the objects
\* that export a buffer (bytes, bytearray, memoryview) and differs from any other
DiffersFromEmpty(data) ==
  IF data.type \in {"bytes", "bytearray", "memoryview"} THEN data.bytes # << >> ELSE TRUE

\* what a call on a hasher comes to: the message of the GOSTHashError raised
\* ("" if none) and the
\* attributes of the object afterwards
HashRaise(self, error) ==
  [raised |-> error, self |-> self]

HashDone(self) ==
  [raised |-> "", self |-> self]

\* GOST34112012.update, for any object data
UpdateCall(self, data) ==
  IF ~IsByteObject(data) THEN HashRaise(self, "invalid data value")
  ELSE HashDone(update(self, data.bytes))

\* GOST34112012.__init__, for any object data
InitCall(name, data) ==
  IF DiffersFromEmpty(data) THEN UpdateCall(InitialAttributes(name), data)
  ELSE HashDone(InitialAttributes(name))

\* new, for any name and any object data
NewCall(name, data) ==
  IF name \notin {"streebog512", "streebog256"}
  THEN HashRaise(InitialAttributes(name), "GOSTHashError: unsupported hash type")
  ELSE InitCall(name, data)

\* copy() returning the object itself: what C12 is tested against
CopyReturnsSelf ==
  TRUE

\* whether the object that copy() returns is the object it was called on:
\* deepcopy makes a new object, attributes included
CopyIsSelf ==
  FALSE

\* the object digest() was called on, afterwards: hash_final acts on temp, the
\* object that copy() returned
AfterDigest(self) ==
  IF CopyIsSelf THEN hash_final(self) ELSE self

(***************************************************************************)
(* gostsignature/gost_34_10_2012.py                                        *)
(*                                                                         *)
(* Python's integers are unbounded.  Every product below that the source   *)
(* reduces modulo p or q is taken with MulMod, which yields the same       *)
(* residue without leaving TLC's integers; moduli are at most 2^16 + 1.    *)
(***************************************************************************)

MODE_256 == 1

MODE_512 == 2

\* a * b % n, for 0 < n <= 2^16 + 1: the product is taken in two halves of a
MulMod(a, b, n) ==
  (((((a % n) \div 256) * (b % n)) % n) * 256 + ((a % n) % 256) * (b % n)) % n

\* base ** exp % n
RECURSIVE PowMod(_, _, _)
PowMod(base, exp, n) ==
  IF exp = 0 THEN 1 % n
  ELSE IF exp % 2 = 1 THEN MulMod(base, PowMod(base, exp - 1, n), n)
  ELSE PowMod(MulMod(base, base, n), exp \div 2, n)

\* self._size for a mode, in the model's unit of 32 bytes
SizeOf(mode) ==
  IF mode = MODE_256 THEN 1 ELSE 2

\* 2 ** 254 and 2 ** 508, at the model's scale: 2 and 4 bits below the full width
QLow(mode) ==
  IF mode = MODE_256 THEN 2 ^ (8 * SizeOf(mode) - 2) ELSE 2 ^ (8 * SizeOf(mode) - 4)

\* 2 ** 256 and 2 ** 512, at the model's scale: the full width
QHigh(mode) ==
  2 ^ (8 * SizeOf(mode))

\* gcdex of _invert, once the recursive call has returned r
GcdexBack(r, value, n_mod) ==
  << r[1], r[3], r[2] - r[3] * (value \div n_mod) >>

\* gcdex of _invert: << gcd, x_value, y_value >>
RECURSIVE gcdex(_, _)
gcdex(value, n_mod) ==
  IF n_mod = 0 THEN << value, 1, 0 >>
  ELSE GcdexBack(gcdex(n_mod, value % n_mod), value, n_mod)

\* _invert returning the coefficient as gcdex gave it: what C26 is tested against
InvertResultAsGiven(result, n_mod) ==
  result

\* the end of _invert
InvertResult(result, n_mod) ==
  IF result < 0 THEN result + n_mod ELSE result

\* GOST34102012._invert
_invert(value, n_mod) ==
  InvertResult(gcdex(value, n_mod)[2], n_mod)

\* the end of _add: the sum, given the gradient
AddGrad(self, x_1, x_2, y_1, grad) ==
  << (MulMod(grad, grad, self._p) - x_1 - x_2) % self._p,
     (MulMod(grad, x_1 - ((MulMod(grad, grad, self._p) - x_1 - x_2) % self._p), self._p)
        - y_1) % self._p >>

\* GOST34102012._add: << x_3, y_3 >>
_add(self, x_1, x_2, y_1, y_2) ==
  IF /\ compare(int_to_bytearray(x_1, self._size), int_to_bytearray(x_2, self._size))
     /\ compare(int_to_bytearray(y_1, self._size), int_to_bytearray(y_2, self._size))
  THEN AddGrad(self, x_1, x_2, y_1,
               MulMod(MulMod(3 * x_1, x_1, self._p) + self._a,
                      _invert(2 * y_1, self._p), self._p))
  ELSE AddGrad(self, x_1, x_2, y_1,
               MulMod((y_2 - y_1) % self._p, _invert((x_2 - x_1) % self._p, self._p),
                      self._p))

\* the outcome of a call that never returns
Diverges ==
  << -1, -1 >>

\* the points _mul_point starts from: the one passed, or the base point of the
\* curve when x_op and y_op are both None or both zero; op = << >> stands for
\* the defaults
MulStart(self, op) ==
  IF op # << >> /\ (op[1] # 0 \/ op[2] # 0) THEN op ELSE << self._x, self._y >>

\* an iteration that leaves x_prev, y_prev as they are: what C22 is tested against
MulBitWithoutDoubling(self, value, prev, next) ==
  << prev,
     IF value % 2 = 1 THEN _add(self, next[1], prev[1], next[2], prev[2]) ELSE next >>

\* one iteration of _mul_point's loop, for the lowest bit of value; st = << prev, next >>
MulBit(self, value, prev, next) ==
  << _add(self, prev[1], prev[1], prev[2], prev[2]),
     IF value % 2 = 1 THEN _add(self, next[1], prev[1], next[2], prev[2]) ELSE next >>

\* _mul_point's loop over _bits(value)
RECURSIVE MulLoop(_, _, _)
MulLoop(self, value, st) ==
  IF value = 0 \/ ~Now(st) THEN st[2]
  ELSE MulLoop(self, value \div 2, MulBit(self, value, st[1], st[2]))

\* GOST34102012._mul_point.  _bits(-1) yields for ever: -1 >> 1 is -1.
_mul_point(self, mul_value, op) ==
  IF mul_value - 1 < 0 THEN Diverges
  ELSE MulLoop(self, mul_value - 1, << MulStart(self, op), MulStart(self, op) >>)

\* GOST34102012._edvards_to_canonical: a, b, x, y of the canonical form of a
\* curve given by e, d, u, v
EdS(curve) ==
  MulMod(curve.e - curve.d, _invert(4, curve.p), curve.p)

\* ed_t with 4 for 6: what C27 is tested against
EdTOverFour(curve) ==
  MulMod(curve.e + curve.d, _invert(4, curve.p), curve.p)

EdT(curve) ==
  MulMod(curve.e + curve.d, _invert(6, curve.p), curve.p)

_edvards_to_canonical(curve) ==
  [p |-> curve.p, m |-> curve.m, q |-> curve.q,
   a |-> (MulMod(EdS(curve), EdS(curve), curve.p)
            - 3 * MulMod(EdT(curve), EdT(curve), curve.p)) % curve.p,
   b |-> (2 * PowMod(EdT(curve), 3, curve.p)
            - MulMod(EdT(curve), MulMod(EdS(curve), EdS(curve), curve.p), curve.p))
           % curve.p,
   x |-> (MulMod(MulMod(EdS(curve), 1 + curve.v, curve.p),
                 _invert(1 - curve.v, curve.p), curve.p) + EdT(curve)) % curve.p,
   y |-> MulMod(MulMod(EdS(curve), 1 + curve.v, curve.p),
                _invert((1 - curve.v) * curve.u, curve.p), curve.p)]

\* the curve once __init__ has called _edvards_to_canonical, which it does when
\* a, b, x or y is None: new() passes None for the keys a curve lacks
Canonical(curve) ==
  IF {"a", "b", "x", "y"} \subseteq DOMAIN curve THEN curve ELSE _edvards_to_canonical(curve)

\* the attributes __init__ assigns (those the methods read)
Attributes(mode, curve) ==
  [_p |-> curve.p, _a |-> Canonical(curve).a, _b |-> Canonical(curve).b, _m |-> curve.m,
   _q |-> curve.q, _x |-> Canonical(curve).x, _y |-> Canonical(curve).y,
   _size |-> IF mode \in {MODE_256, MODE_512} THEN SizeOf(mode) ELSE 0]

\* whether p ** i % q == 1 % q holds in some iteration of the loop of the mode
EmbeddingHit(mode, self) ==
  IF mode = MODE_256
  THEN \E i \in 1..31 : PowMod(self._p, i, self._q) = 1 % self._q
  ELSE \E i \in 1..131 : PowMod(self._p, 1, self._q) = 1 % self._q

\* __init__ without the test of the base point: what C15 is tested against
OffCurveUntested(self) ==
  FALSE

\* whether the base point fails the equation of the curve
OffCurve(self) ==
  MulMod(self._y, self._y, self._p)
    # (PowMod(self._x, 3, self._p) + MulMod(self._x, self._a, self._p) + self._b) % self._p

\* the ValueError that __init__ raises on the attributes, "" if none
InitError(mode, self) ==
  IF self._m = self._p
  THEN "ValueError: invalid parameters of the elliptic curve"
  ELSE IF EmbeddingHit(mode, self)
  THEN "ValueError: invalid parameters of the elliptic curve"
  ELSE IF self._q < QLow(mode) \/ self._q > QHigh(mode)
  THEN "ValueError: invalid parameters of the elliptic curve"
  ELSE IF OffCurve(self)
  THEN "ValueError: invalid parameters of the elliptic curve"
  ELSE ""

\* GOST34102012.__init__: the object, and what was raised
GOST34102012(mode, curve) ==
  IF mode \notin {MODE_256, MODE_512}
  THEN [raised |-> "ValueError: unsupported signature mode", self |-> Attributes(mode, curve)]
  ELSE [raised |-> InitError(mode, Attributes(mode, curve)), self |-> Attributes(mode, curve)]

\* the three shapes of a curve that new() constructs an object for
IsEdvardsOnly(curve) ==
  {"e", "d", "u", "v"} \subseteq DOMAIN curve /\ {"x", "y", "a", "b"} \cap DOMAIN curve = {}

IsCanonical(curve) ==
  {"x", "y", "a", "b"} \subseteq DOMAIN curve
    /\ ({"e", "d", "u", "v"} \subseteq DOMAIN curve \/ {"e", "d", "u", "v"} \cap DOMAIN curve = {})

\* new() once __init__ has returned or raised: a ValueError is printed and the
\* process exits
NewResult(made) ==
  IF made.raised # "" THEN [made EXCEPT !.raised = "SystemExit"] ELSE made

\* gostsignature.new
SignNew(mode, curve) ==
  IF IsCanonical(curve) \/ IsEdvardsOnly(curve) THEN NewResult(GOST34102012(mode, curve))
  ELSE [raised |-> "UnboundLocalError", self |-> [_size |-> 0]]

\* sign_e with the digest that is 0 mod q read as 2: what C5 is tested against
SignEZeroAsTwo(self, dgst) ==
  IF compare_to_zero(int_to_bytearray(bytearray_to_int(dgst) % self._q, self._size))
  THEN 2
  ELSE bytearray_to_int(dgst) % self._q

\* sign_e of sign and verify
SignE(self, dgst) ==
  IF compare_to_zero(int_to_bytearray(bytearray_to_int(dgst) % self._q, self._size))
  THEN 1
  ELSE bytearray_to_int(dgst) % self._q

\* byte objects as the methods see them: a private key is [type, bytes], where
\* type is the Python type of the argument; rand_k is [none, bytes], where none
\* says that the argument is None

\* isinstance(private_key, (bytes, bytearray))
IsKey(private_key) ==
  private_key.type \in {"bytes", "bytearray"}

\* what a call of sign or public_key_generate comes to.  raised: the exception, ""
\* if none; hung: the call never returns; result: the bytes returned; sign_k: the
\* scalar last passed to _mul_point, -1 if none; private_key: what the local name
\* private_key is bound to at the exit; drawn: the os.urandom values consumed.
Raise(private_key, error, drawn) ==
  [raised |-> error, hung |-> FALSE, starved |-> FALSE, result |-> << >>, sign_k |-> -1,
   private_key |-> private_key, drawn |-> drawn]

Hang(private_key, sign_k, drawn) ==
  [raised |-> "", hung |-> TRUE, starved |-> FALSE, result |-> << >>, sign_k |-> sign_k,
   private_key |-> private_key, drawn |-> drawn]

\* the call asks os.urandom for more values than the run provides
Starve(private_key, drawn) ==
  [raised |-> "", hung |-> FALSE, starved |-> TRUE, result |-> << >>, sign_k |-> -1,
   private_key |-> private_key, drawn |-> drawn]

Return(private_key, result, sign_k, drawn) ==
  [raised |-> "", hung |-> FALSE, starved |-> FALSE, result |-> result, sign_k |-> sign_k,
   private_key |-> private_key, drawn |-> drawn]

\* the end of sign: sign_s and the outer loop.  With sign_s zero the outer loop
\* runs again; sign_r is not zero, so the inner loop is skipped and sign_s is
\* computed from the same values: the loop never ends.
SignS(self, private_key, sign_e, sign_k, sign_r, sign_s, drawn) ==
  IF compare_to_zero(int_to_bytearray(sign_s, self._size))
  THEN Hang(private_key, sign_k, drawn)
  ELSE Return([type |-> "bytearray", bytes |-> zero_fill(Len(private_key.bytes))],
              int_to_bytearray(sign_r, self._size) \o int_to_bytearray(sign_s, self._size),
              sign_k, drawn)

\* the inner loop of sign from sign_c on
RECURSIVE SignC(_, _, _, _, _, _, _, _)
RECURSIVE SignDraw(_, _, _, _, _, _)
SignC(self, private_key, sign_e, rand_k, urandom, drawn, sign_k, sign_c) ==
  IF sign_c = Diverges
  THEN Hang(private_key, sign_k, drawn)
  ELSE IF compare_to_zero(int_to_bytearray(sign_c[1] % self._q, self._size))
  THEN IF rand_k.none
       THEN SignDraw(self, private_key, sign_e, rand_k, urandom, drawn)
       ELSE Hang(private_key, sign_k, drawn)
  ELSE SignS(self, private_key, sign_e, sign_k, sign_c[1] % self._q,
             (MulMod(sign_c[1] % self._q, bytearray_to_int(private_key.bytes), self._q)
                + MulMod(sign_k, sign_e, self._q)) % self._q,
             drawn)

\* the inner loop of sign from the point where sign_k is bound
SignK(self, private_key, sign_e, rand_k, urandom, drawn, sign_k) ==
  SignC(self, private_key, sign_e, rand_k, urandom, drawn, sign_k,
        _mul_point(self, sign_k, << >>))

\* the inner loop of sign with rand_k None, from the draw of sign_rand_k on;
\* urandom holds the values os.urandom returns, drawn counts those consumed
SignDraw(self, private_key, sign_e, rand_k, urandom, drawn) ==
  IF drawn >= Len(urandom) THEN Starve(private_key, drawn)
  ELSE IF bytearray_to_int(urandom[drawn + 1]) >= self._q
  THEN SignDraw(self, private_key, sign_e, rand_k, urandom, drawn + 1)
  ELSE SignK(self, private_key, sign_e, rand_k, urandom, drawn + 1,
             bytearray_to_int(urandom[drawn + 1]))

\* sign drawing k from os.urandom whatever rand_k is: what C17 is tested against
SignDrawsAlways(self, private_key, dgst, rand_k, urandom) ==
  IF ~IsKey(private_key)
  THEN Raise(private_key, "ValueError: invalid private key value", 0)
  ELSE IF Len(private_key.bytes) # self._size
  THEN Raise(private_key, "ValueError: invalid private key size", 0)
  ELSE IF ~rand_k.none /\ Len(rand_k.bytes) # self._size
  THEN Raise([type |-> "bytearray", bytes |-> zero_fill(Len(private_key.bytes))],
             "ValueError: invalid random value size", 0)
  ELSE SignDraw(self, private_key, SignE(self, dgst), [none |-> TRUE, bytes |-> << >>],
                urandom, 0)

\* GOST34102012.sign
sign(self, private_key, dgst, rand_k, urandom) ==
  IF ~IsKey(private_key)
  THEN Raise(private_key, "ValueError: invalid private key value", 0)
  ELSE IF Len(private_key.bytes) # self._size
  THEN Raise(private_key, "ValueError: invalid private key size", 0)
  ELSE IF rand_k.none
  THEN SignDraw(self, private_key, SignE(self, dgst), rand_k, urandom, 0)
  ELSE IF Len(rand_k.bytes) # self._size
  THEN Raise([type |-> "bytearray", bytes |-> zero_fill(Len(private_key.bytes))],
             "ValueError: invalid random value size", 0)
  ELSE SignK(self, private_key, SignE(self, dgst), rand_k, urandom, 0,
             bytearray_to_int(rand_k.bytes))

\* public_key_generate returning y before x: what C16 is tested against
PublicKeyBytesYX(self, private_key, public_key) ==
  IF public_key = Diverges
  THEN Hang([type |-> "int", bytes |-> << >>], private_key, 0)
  ELSE Return([type |-> "int", bytes |-> << >>],
              int_to_bytearray(public_key[2], self._size)
                \o int_to_bytearray(public_key[1], self._size),
              private_key, 0)

\* the end of public_key_generate, from the point public_key on
PublicKeyBytes(self, private_key, public_key) ==
  IF public_key = Diverges
  THEN Hang([type |-> "int", bytes |-> << >>], private_key, 0)
  ELSE Return([type |-> "int", bytes |-> << >>],
              int_to_bytearray(public_key[1], self._size)
                \o int_to_bytearray(public_key[2], self._size),
              private_key, 0)

\* GOST34102012.public_key_generate
public_key_generate(self, private_key) ==
  IF ~IsKey(private_key)
  THEN Raise(private_key, "ValueError: invalid private key value", 0)
  ELSE IF Len(private_key.bytes) # self._size
  THEN Raise(private_key, "ValueError: invalid private key size", 0)
  ELSE PublicKeyBytes(self, bytearray_to_int(private_key.bytes),
                      _mul_point(self, bytearray_to_int(private_key.bytes), << >>))

\* what a call of verify comes to.  points: the points computed, in order.
VerifyRaise(error) ==
  [raised |-> error, hung |-> FALSE, result |-> FALSE, points |-> << >>]

VerifyHang(points) ==
  [raised |-> "", hung |-> TRUE, result |-> FALSE, points |-> points]

VerifyReturn(result, points) ==
  [raised |-> "", hung |-> FALSE, result |-> result, points |-> points]

\* the end of verify, from sign_c on
VerifyC(self, sign_r, sign_p, sign_q, sign_c) ==
  VerifyReturn(compare(int_to_bytearray(sign_c[1] % self._q, self._size),
                       int_to_bytearray(sign_r, self._size)),
               << sign_p, sign_q, sign_c >>)

\* verify from sign_q on
VerifyQ(self, sign_r, sign_p, sign_q) ==
  IF sign_q = Diverges THEN VerifyHang(<< sign_p >>)
  ELSE VerifyC(self, sign_r, sign_p, sign_q,
               _add(self, sign_p[1], sign_q[1], sign_p[2], sign_q[2]))

\* verify from sign_p on
VerifyP(self, public_key, sign_r, sign_z_2, sign_p) ==
  IF sign_p = Diverges THEN VerifyHang(<< >>)
  ELSE VerifyQ(self, sign_r, sign_p, _mul_point(self, sign_z_2, public_key))

\* verify from sign_v on with sign_z_2 not negated: what C2 is tested against
VerifyVNotNegated(self, public_key, sign_r, sign_s, sign_v) ==
  VerifyP(self, public_key, sign_r, MulMod(sign_r, sign_v, self._q),
          _mul_point(self, MulMod(sign_s, sign_v, self._q), << >>))

\* verify from sign_v on
VerifyV(self, public_key, sign_r, sign_s, sign_v) ==
  VerifyP(self, public_key, sign_r, self._q - MulMod(sign_r, sign_v, self._q),
          _mul_point(self, MulMod(sign_s, sign_v, self._q), << >>))

\* verify with sign_r = 0 let through: what C10 is tested against
VerifyDecodedZeroR(self, public_key, dgst, sign_r, sign_s) ==
  IF sign_r < 0 \/ sign_r >= self._q \/ sign_s <= 0 \/ sign_s >= self._q
  THEN VerifyReturn(FALSE, << >>)
  ELSE VerifyV(self, public_key, sign_r, sign_s, _invert(SignE(self, dgst), self._q))

\* verify once public_key, sign_r and sign_s are decoded
VerifyDecoded(self, public_key, dgst, sign_r, sign_s) ==
  IF sign_r <= 0 \/ sign_r >= self._q \/ sign_s <= 0 \/ sign_s >= self._q
  THEN VerifyReturn(FALSE, << >>)
  ELSE VerifyV(self, public_key, sign_r, sign_s, _invert(SignE(self, dgst), self._q))

\* b[:n] and b[n:] of a byte object
Upto(b, n) ==
  SubSeq(b, 1, IF n < Len(b) THEN n ELSE Len(b))

From(b, n) ==
  SubSeq(b, (IF n < Len(b) THEN n ELSE Len(b)) + 1, Len(b))

\* verify without the test of the signature's length: what C11 is tested
\* against
VerifyAnySize(self, public_key, dgst, signature) ==
  VerifyDecoded(self,
                << bytearray_to_int(Upto(public_key, self._size)),
                   bytearray_to_int(From(public_key, self._size)) >>,
                dgst,
                bytearray_to_int(Upto(signature, self._size)),
                bytearray_to_int(From(signature, self._size)))

\* GOST34102012.verify
verify(self, public_key, dgst, signature) ==
  IF Len(signature) # self._size * 2
  THEN VerifyRaise("ValueError: invalid signature size")
  ELSE VerifyDecoded(self,
                     << bytearray_to_int(Upto(public_key, self._size)),
                        bytearray_to_int(From(public_key, self._size)) >>,
                     dgst,
                     bytearray_to_int(Upto(signature, self._size)),
                     bytearray_to_int(From(signature, self._size)))

(***************************************************************************)
(* The state: one hash object and its clone, or one signature object, the  *)
(* calls made on them, and the caller's private-key object                 *)
(***************************************************************************)

VARIABLES
  hasher,       \* the hash object of the run
  clone,        \* the object that hasher.copy() returned, once it was called
  sign_obj,     \* what gostsignature.new came to: the object, or the exception
  caller_key,   \* the object the caller passes as private_key
  frame,        \* the local variables of a call that is followed step by step
  calls         \* the calls made so far, with their arguments and outcomes

vars == << hasher, clone, sign_obj, caller_key, frame, calls >>

\* a run on a hash object has no signature object, and conversely
NoSignObj ==
  [raised |-> "none", self |-> [_size |-> 0]]

NoKey ==
  [type |-> "bytearray", bytes |-> << >>]

\* no call is followed step by step
NoFrame ==
  [pc |-> "none"]

NoHasher ==
  InitialAttributes("streebog256")

(***************************************************************************)
(* Runs on a hash object                                                   *)
(***************************************************************************)

\* byte objects handed to the hasher: n bytes, all of value byte
Chunk(n, byte) ==
  SubSeq([i \in 1..n |-> byte], 1, n)

\* lengths that leave a tail, complete a buffered tail to a block, and do both
Chunks ==
  { Chunk(3, 97), Chunk(61, 120) }

InitialData ==
  { <<>>, Chunk(3, 97) }

HashNames ==
  { "streebog256", "streebog512" }

\* new(name, data)
new(name, data) ==
  GOST34112012(name, data)

HashInit ==
  \E name \in HashNames, data \in InitialData :
    /\ hasher = new(name, data)
    /\ clone = NoHasher
    /\ sign_obj = NoSignObj
    /\ caller_key = NoKey
    /\ frame = NoFrame
    /\ calls = << [op |-> "new", name |-> name, data |-> data] >>

\* hasher.update(data)
HashUpdate(data) ==
  /\ Len(calls) <= MaxCalls
  /\ hasher' = update(hasher, data)
  /\ calls' = Append(calls, [op |-> "update", data |-> data])
  /\ UNCHANGED << clone, sign_obj, caller_key, frame >>

\* hasher.digest()
HashDigest ==
  /\ Len(calls) <= MaxCalls
  /\ calls' = Append(calls, [op |-> "digest", result |-> digest(hasher)])
  /\ UNCHANGED << hasher, clone, sign_obj, caller_key, frame >>

HashNext ==
  \/ \E data \in Chunks : HashUpdate(data)
  \/ HashDigest

SpecHash == HashInit /\ [][HashNext]_vars
(***************************************************************************)
(* Runs on a hash object and its clone: new with any name and any object   *)
(* as data, then update, digest, reset on either and copy                  *)
(***************************************************************************)

LifeNames ==
  { "streebog256", "streebog512", "md5" }

\* data passed to new: nothing, a tail, a block and a tail, a str, and an
\* empty memoryview
LifeInitialData ==
  { [type |-> "bytearray", bytes |-> << >>],
    [type |-> "bytearray", bytes |-> Chunk(3, 97)],
    [type |-> "bytes", bytes |-> Chunk(67, 98)],
    [type |-> "str", bytes |-> Chunk(3, 99)],
    [type |-> "memoryview", bytes |-> << >>] }

\* data passed to update: what completes a buffered tail of 3 to a block, a
\* tail, and a str
LifeData ==
  { [type |-> "bytes", bytes |-> Chunk(61, 120)],
    [type |-> "bytearray", bytes |-> Chunk(3, 97)],
    [type |-> "str", bytes |-> Chunk(3, 99)] }

\* h is the object new() returned, c the one h.copy() returned
Targets ==
  { "h", "c" }

Copied ==
  \E i \in 1..Len(calls) : calls[i].op = "copy"

Obj(target) ==
  IF target = "h" THEN hasher ELSE clone

\* a call on the target can be made
CanCall(target) ==
  /\ calls[1].raised = ""
  /\ Len(calls) <= MaxLife
  /\ target = "c" => Copied

\* the call leaves the target with the attributes after; they are those of the
\* other name too where both name one object
Leaves(target, after) ==
  /\ hasher' = IF target = "h" \/ (Copied /\ CopyIsSelf) THEN after ELSE hasher
  /\ clone' = IF target = "c" \/ (Copied /\ CopyIsSelf) THEN after ELSE clone

Call(op, target, data, raised, result) ==
  [op |-> op, target |-> target, data |-> data, raised |-> raised, result |-> result]

NoData ==
  [type |-> "bytearray", bytes |-> << >>]

LifeInit ==
  \E name \in LifeNames, data \in LifeInitialData :
    /\ hasher = NewCall(name, data).self
    /\ clone = NoHasher
    /\ sign_obj = NoSignObj
    /\ caller_key = NoKey
    /\ frame = NoFrame
    /\ calls = << [op |-> "new", target |-> "h", name |-> name, data |-> data,
                    raised |-> NewCall(name, data).raised, result |-> << >>] >>

\* target.update(data)
LifeUpdate(target, data) ==
  /\ CanCall(target)
  /\ Leaves(target, UpdateCall(Obj(target), data).self)
  /\ calls' = Append(calls, Call("update", target, data,
                                 UpdateCall(Obj(target), data).raised, << >>))
  /\ UNCHANGED << sign_obj, caller_key, frame >>

\* target.digest()
LifeDigest(target) ==
  /\ CanCall(target)
  /\ Leaves(target, AfterDigest(Obj(target)))
  /\ calls' = Append(calls, Call("digest", target, NoData, "", digest(Obj(target))))
  /\ UNCHANGED << sign_obj, caller_key, frame >>

\* target.reset()
LifeReset(target) ==
  /\ CanCall(target)
  /\ Leaves(target, reset(Obj(target)))
  /\ calls' = Append(calls, Call("reset", target, NoData, "", << >>))
  /\ UNCHANGED << sign_obj, caller_key, frame >>

\* c = h.copy()
LifeCopy ==
  /\ CanCall("h")
  /\ ~Copied
  /\ clone' = copy(hasher)
  /\ calls' = Append(calls, Call("copy", "h", NoData, "", << >>))
  /\ UNCHANGED << hasher, sign_obj, caller_key, frame >>

LifeNext ==
  \/ \E target \in Targets, data \in LifeData : LifeUpdate(target, data)
  \/ \E target \in Targets : LifeDigest(target)
  \/ \E target \in Targets : LifeReset(target)
  \/ LifeCopy

SpecLife == LifeInit /\ [][LifeNext]_vars

(***************************************************************************)
(* Runs on a signature object: new, then public_key_generate, sign and     *)
(* verify, in the order of the module's usage example, and sign again      *)
(***************************************************************************)

\* curves at the model's scale.  Valid256 and Valid512 are curves of prime order
\* q = m whose embedding degree exceeds the loop bounds.
Valid256 ==
  [p |-> 239, a |-> 1, b |-> 35, m |-> 223, q |-> 223, x |-> 2, y |-> 93]

Valid512 ==
  [p |-> 4099, a |-> 1, b |-> 35, m |-> 4157, q |-> 4157, x |-> 2, y |-> 1812]

\* a curve whose base point has order 223, declared below with q another
\* prime of the range, with q = 2 ** 8, and with q next to the bounds
Order256 ==
  [p |-> 211, a |-> 1, b |-> 1, m |-> 223, q |-> 223, x |-> 0, y |-> 1]

\* y^2 = x^3 + x over p = 3 mod 4 has p + 1 points: p ** 2 % q = 1 for q | p + 1
Supersingular512 ==
  [p |-> 16843, a |-> 1, b |-> 0, m |-> 16844, q |-> 4211, x |-> 15404, y |-> 12363]

\* a curve of prime order q = m with p ** 8 % q = 1
Embedding256 ==
  [p |-> 83, a |-> 1, b |-> 35, m |-> 73, q |-> 73, x |-> 1, y |-> 28]

\* a twisted Edwards curve e * u^2 + v^2 = 1 + d * u^2 * v^2 of 4 * q points with
\* q prime, given by e, d, u, v alone; (u, v) has order q
Edvards512 ==
  [p |-> 16427, e |-> 1, d |-> 5, m |-> 16444, q |-> 4111, u |-> 3, v |-> 4703]

\* curves that differ from Valid256 and Edvards512 in that m = p, or in that
\* the base point is not on the curve
Invalid ==
  { [Valid256 EXCEPT !.m = 239], [Valid256 EXCEPT !.y = 94],
    [Edvards512 EXCEPT !.m = 16427], [Edvards512 EXCEPT !.v = 4704] }

Curves ==
  { Valid256, Valid512, Supersingular512, Embedding256, Edvards512 }
    \cup Invalid
    \cup { [Order256 EXCEPT !.q = q] : q \in {2 ^ 6 - 1, 227, 2 ^ 8, 2 ^ 8 + 1} }
    \cup { [Valid512 EXCEPT !.q = q] : q \in {2 ^ 12 - 1, 2 ^ 16, 2 ^ 16 + 1} }

Modes ==
  { MODE_256, MODE_512, 3 }

\* the objects passed as private_key: keys of the size of the mode (among them
\* the key of zero bytes and the order of the base point of Order256), a key
\* of another size, and an object that is not a byte object
PrivateKeys(mode) ==
  { [type |-> "bytearray", bytes |-> int_to_bytearray(d, SizeOf(mode))] : d \in {0, 1, 57, 223} }
    \cup { [type |-> "bytearray", bytes |-> int_to_bytearray(57, SizeOf(mode) + 1)],
           [type |-> "str", bytes |-> << 53, 55 >>] }

\* the digests signed: one that is 0 mod q, one that the flip of bit 5 can
\* take to its negative mod q, and another
Digests(self) ==
  { int_to_bytearray(0, self._size), int_to_bytearray(self._q - 16, self._size),
    int_to_bytearray(100, self._size) }

\* rand_k: None, zero, values below q, q, above q, and one of another size
RandKs(self) ==
  { [none |-> TRUE, bytes |-> << >>],
    [none |-> FALSE, bytes |-> int_to_bytearray(77, self._size + 1)] }
    \cup { [none |-> FALSE, bytes |-> int_to_bytearray(k, self._size)] :
             k \in {0, 77, self._q, self._q + 7} \cap (0 .. 256 ^ self._size - 1) }

\* what os.urandom would return during the first call of sign: a value below
\* q, at once or after one that is not, or zero bytes
Urandoms(self, rand_k) ==
  IF rand_k.none
  THEN { << int_to_bytearray(77, self._size) >>,
         << int_to_bytearray(256 ^ self._size - 1, self._size),
            int_to_bytearray(77, self._size) >>,
         << int_to_bytearray(0, self._size) >> }
  ELSE { << int_to_bytearray(77, self._size) >> }

\* what os.urandom would return during the second call of sign
SecondUrandoms(self) ==
  { << int_to_bytearray(78, self._size) >>,
    << int_to_bytearray(256 ^ self._size - 1, self._size),
       int_to_bytearray(79, self._size) >> }

\* b with one bit flipped; bit 0 is the least significant bit of the last byte
FlipBit(b, bit) ==
  SubSeq([i \in 1..Len(b) |->
            IF i = Len(b) - (bit \div 8) THEN XorByte(b[i], 2 ^ (bit % 8)) ELSE b[i]],
         1, Len(b))

\* what the verifier is handed: the public key, the digest and the signature as
\* they were made, or with one bit of one of r, s, digest, public_key flipped,
\* or with r or s replaced by a value, or with the signature one byte shorter
\* or longer, or with a public key of zero bytes
Tampers(self) ==
  { [kind |-> "none", field |-> "", bit |-> 0, value |-> 0] }
    \cup { [kind |-> "flip", field |-> f, bit |-> n, value |-> 0] :
             f \in {"r", "s", "digest"}, n \in 0 .. 8 * self._size - 1 }
    \cup { [kind |-> "flip", field |-> "public_key", bit |-> n, value |-> 0] :
             n \in 0 .. 16 * self._size - 1 }
    \cup { [kind |-> "set", field |-> f, bit |-> 0, value |-> v] :
             f \in {"r", "s"}, v \in {0, self._q, 256 ^ self._size - 1} \cap (0 .. 256 ^ self._size - 1) }
    \cup { [kind |-> "size", field |-> "signature", bit |-> 0, value |-> v] : v \in {-1, 1} }
    \cup { [kind |-> "zero", field |-> "public_key", bit |-> 0, value |-> 0] }

Tampered(self, t, field, b) ==
  IF t.field # field THEN b
  ELSE IF t.kind = "flip" THEN FlipBit(b, t.bit)
  ELSE IF t.kind = "zero" THEN zero_fill(Len(b))
  ELSE int_to_bytearray(t.value, self._size)

\* the signature handed to the verifier
TamperedSignature(self, t, signature) ==
  IF t.kind = "size"
  THEN IF t.value < 0 THEN SubSeq(signature, 1, Len(signature) - 1) ELSE signature \o << 0 >>
  ELSE Tampered(self, t, "r", Upto(signature, self._size))
         \o Tampered(self, t, "s", From(signature, self._size))

SignInit ==
  \E mode \in Modes, curve \in Curves :
    \E private_key \in PrivateKeys(mode) :
      /\ sign_obj = SignNew(mode, curve)
      /\ caller_key = private_key
      /\ frame = NoFrame
      /\ calls = << >>
      /\ hasher = NoHasher
      /\ clone = NoHasher

\* public_key = sign_obj.public_key_generate(private_key).  No statement of the
\* method writes into the object passed: `private_key = 0` binds the local name.
PublicKeyGenerate ==
  /\ sign_obj.raised = ""
  /\ Len(calls) = 0
  /\ calls' = << [op |-> "public_key_generate",
                  out |-> public_key_generate(sign_obj.self, caller_key)] >>
  /\ UNCHANGED << hasher, clone, sign_obj, caller_key, frame >>

\* signature = sign_obj.sign(private_key, digest, rand_k).  No statement of the
\* method writes into the object passed: `private_key = zero_fill(...)` binds
\* the local name to a new object.
Sign(dgst, rand_k, urandom) ==
  /\ Len(calls) = 1
  /\ ~calls[1].out.hung
  /\ ~sign(sign_obj.self, caller_key, dgst, rand_k, urandom).starved
  /\ calls' = Append(calls, [op |-> "sign", dgst |-> dgst, rand_k |-> rand_k,
                             urandom |-> urandom,
                             out |-> sign(sign_obj.self, caller_key, dgst, rand_k, urandom)])
  /\ UNCHANGED << hasher, clone, sign_obj, caller_key, frame >>

\* sign_obj.verify(public_key, digest, signature)
Verify(t) ==
  /\ Len(calls) = 2
  /\ calls[1].out.raised = "" /\ calls[2].out.raised = "" /\ ~calls[2].out.hung
  /\ calls' = Append(calls,
       [op |-> "verify", tamper |-> t,
        public_key |-> Tampered(sign_obj.self, t, "public_key", calls[1].out.result),
        dgst |-> Tampered(sign_obj.self, t, "digest", calls[2].dgst),
        signature |-> TamperedSignature(sign_obj.self, t, calls[2].out.result),
        out |-> verify(sign_obj.self,
                       Tampered(sign_obj.self, t, "public_key", calls[1].out.result),
                       Tampered(sign_obj.self, t, "digest", calls[2].dgst),
                       TamperedSignature(sign_obj.self, t, calls[2].out.result))])
  /\ UNCHANGED << hasher, clone, sign_obj, caller_key, frame >>

\* a second sign_obj.sign(private_key, digest, rand_k), with the digest of the
\* first, once the signature of the first was verified
SignAgain(rand_k, urandom) ==
  /\ Len(calls) = 3
  /\ calls[3].tamper.kind = "none"
  /\ ~calls[3].out.hung
  /\ ~sign(sign_obj.self, caller_key, calls[2].dgst, rand_k, urandom).starved
  /\ calls' = Append(calls, [op |-> "sign", dgst |-> calls[2].dgst, rand_k |-> rand_k,
                             urandom |-> urandom,
                             out |-> sign(sign_obj.self, caller_key, calls[2].dgst,
                                          rand_k, urandom)])
  /\ UNCHANGED << hasher, clone, sign_obj, caller_key, frame >>

SignNext ==
  \/ PublicKeyGenerate
  \/ \E dgst \in Digests(sign_obj.self), rand_k \in RandKs(sign_obj.self) :
       \E urandom \in Urandoms(sign_obj.self, rand_k) : Sign(dgst, rand_k, urandom)
  \/ \E t \in Tampers(sign_obj.self) : Verify(t)
  \/ \E rand_k \in RandKs(sign_obj.self), urandom \in SecondUrandoms(sign_obj.self) :
       SignAgain(rand_k, urandom)

SpecSign == SignInit /\ [][SignNext]_vars

(***************************************************************************)
(* One call of sign with rand_k None, followed through its loops           *)
(***************************************************************************)

\* the digests signed
RetryDigests(self) ==
  Digests(self)

\* the private keys: those of size bytes
RetryKeys(mode) ==
  { private_key \in PrivateKeys(mode) :
      IsKey(private_key) /\ Len(private_key.bytes) = SizeOf(mode) }

\* what os.urandom(size) can return
RandomValues(self) ==
  0 .. 256 ^ self._size - 1

\* the values of [1, q)
RangeValues(self) ==
  1 .. self._q - 1

\* the object of these runs, and the points its _mul_point returns
RetryObject ==
  SignNew(MODE_256, Valid256)

RetryPoints ==
  [value \in RandomValues(RetryObject.self) |-> _mul_point(RetryObject.self, value, << >>)]

\* sign is entered with valid arguments: sign_e is bound, sign_r = sign_s = 0
RetryInit ==
  \E private_key \in RetryKeys(MODE_256) :
    \E dgst \in RetryDigests(RetryObject.self) :
      /\ sign_obj = RetryObject
      /\ caller_key = private_key
      /\ frame = [pc |-> "outer", dgst |-> dgst, sign_e |-> SignE(sign_obj.self, dgst),
                  sign_r |-> 0, sign_s |-> 0, sign_k |-> -1, sign_rand_k |-> << >>]
      /\ calls = << >>
      /\ hasher = NoHasher
      /\ clone = NoHasher

\* while compare_to_zero(int_to_bytearray(sign_s, self._size)):
RetryOuter ==
  /\ frame.pc = "outer"
  /\ frame' = [frame EXCEPT !.pc =
       IF compare_to_zero(int_to_bytearray(frame.sign_s, sign_obj.self._size))
       THEN "inner" ELSE "return"]
  /\ UNCHANGED << hasher, clone, sign_obj, caller_key, calls >>

\* while compare_to_zero(int_to_bytearray(sign_r, self._size)):
RetryInner ==
  /\ frame.pc = "inner"
  /\ frame' = [frame EXCEPT !.pc =
       IF compare_to_zero(int_to_bytearray(frame.sign_r, sign_obj.self._size))
       THEN "draw" ELSE "calc_s"]
  /\ UNCHANGED << hasher, clone, sign_obj, caller_key, calls >>

\* sign_rand_k = os.urandom(self._size), which returns value, and the test of
\* `while bytearray_to_int(sign_rand_k) >= self._q`
RetryDraw(value) ==
  /\ frame.pc = "draw"
  /\ frame' = [frame EXCEPT
       !.sign_rand_k = int_to_bytearray(value, sign_obj.self._size),
       !.pc = IF bytearray_to_int(int_to_bytearray(value, sign_obj.self._size))
                   >= sign_obj.self._q
              THEN "draw" ELSE "mul"]
  /\ UNCHANGED << hasher, clone, sign_obj, caller_key, calls >>

\* sign_k = bytearray_to_int(sign_rand_k); sign_c = self._mul_point(sign_k);
\* sign_r = sign_c[0] % self._q.  _mul_point(0) never returns.
RetryMul ==
  /\ frame.pc = "mul"
  /\ frame' =
       IF RetryPoints[bytearray_to_int(frame.sign_rand_k)] = Diverges
       THEN [frame EXCEPT !.sign_k = bytearray_to_int(frame.sign_rand_k), !.pc = "_bits"]
       ELSE [frame EXCEPT
               !.sign_k = bytearray_to_int(frame.sign_rand_k),
               !.sign_r = RetryPoints[bytearray_to_int(frame.sign_rand_k)][1]
                            % sign_obj.self._q,
               !.pc = "inner"]
  /\ UNCHANGED << hasher, clone, sign_obj, caller_key, calls >>

\* sign_s = (sign_r * bytearray_to_int(private_key) + sign_k * sign_e) % self._q
RetryCalcS ==
  /\ frame.pc = "calc_s"
  /\ frame' = [frame EXCEPT
       !.sign_s = (MulMod(frame.sign_r, bytearray_to_int(caller_key.bytes), sign_obj.self._q)
                     + MulMod(frame.sign_k, frame.sign_e, sign_obj.self._q))
                    % sign_obj.self._q,
       !.pc = "outer"]
  /\ UNCHANGED << hasher, clone, sign_obj, caller_key, calls >>

\* return sign_r + sign_s
RetryReturn ==
  /\ frame.pc = "return"
  /\ frame' = [frame EXCEPT !.pc = "done"]
  /\ calls' = Append(calls,
       [op |-> "sign", dgst |-> frame.dgst, rand_k |-> [none |-> TRUE, bytes |-> << >>],
        out |-> Return([type |-> "bytearray", bytes |-> zero_fill(Len(caller_key.bytes))],
                       int_to_bytearray(frame.sign_r, sign_obj.self._size)
                         \o int_to_bytearray(frame.sign_s, sign_obj.self._size),
                       frame.sign_k, 0)])
  /\ UNCHANGED << hasher, clone, sign_obj, caller_key >>

RetryNext ==
  \/ RetryOuter
  \/ RetryInner
  \/ \E value \in RandomValues(sign_obj.self) : RetryDraw(value)
  \/ RetryMul
  \/ RetryCalcS
  \/ RetryReturn

\* values of [1, q) on the object of these runs: one for which r is zero, one
\* for which s is zero with the private key 1 and the digest q - 16, and one
\* for which neither is zero with any of the keys and digests
FairValues ==
  { 64, 219, 77 }

\* the interpreter goes on, and os.urandom, asked again and again, yields each
\* of FairValues again and again.  A source that yields every value of [1, q)
\* again and again does so; the conditions on the other values are left out.
RetryFairness ==
  /\ WF_vars(RetryOuter) /\ WF_vars(RetryInner) /\ WF_vars(RetryMul)
  /\ WF_vars(RetryCalcS) /\ WF_vars(RetryReturn)
  /\ \A value \in FairValues : SF_vars(RetryDraw(value))

SpecRetry == RetryInit /\ [][RetryNext]_vars /\ RetryFairness

(***************************************************************************)
(* Properties of the hash object                                           *)
(***************************************************************************)

\* the bytes fed so far: the data of new() and of every update(), in order
RECURSIVE Fed(_)
Fed(cs) ==
  IF cs = << >> THEN << >>
  ELSE Fed(SubSeq(cs, 1, Len(cs) - 1))
         \o (IF cs[Len(cs)].op = "digest" THEN << >> ELSE cs[Len(cs)].data)

\* digest() of a fresh hasher of the variant, given one update(data)
FreshDigest(name, data) ==
  digest(update(new(name, << >>), data))

\* the positions of the digest() calls
DigestCalls ==
  { i \in 1..Len(calls) : calls[i].op = "digest" }

\* C1: incremental equivalence.  A hasher fed by successive updates returns from
\* digest() the bytes that a fresh hasher of the same variant returns after one
\* update with the concatenation of the chunks.
C1_IncrementalEquivalence ==
  (DigestCalls = { Len(calls) })
    => calls[Len(calls)].result = FreshDigest(calls[1].name, Fed(calls))

\* C3: non-destructiveness.  After update(a), digest(), update(b), digest(), the
\* second digest is the fresh hash of a || b, and the first the fresh hash of a.
C3_NonDestructive ==
  (Cardinality(DigestCalls) = 2 /\ Len(calls) \in DigestCalls)
    => \A i \in DigestCalls :
         calls[i].result = FreshDigest(calls[1].name, Fed(SubSeq(calls, 1, i)))
(***************************************************************************)
(* Properties of a hash object and its clone                               *)
(***************************************************************************)

\* a step that makes a call
MakesCall ==
  Len(calls') = Len(calls) + 1

\* the call a step makes
Made ==
  calls'[Len(calls')]

\* what h and c name before and after a step
ObjBefore(target) ==
  IF target = "h" THEN hasher ELSE clone

ObjAfter(target) ==
  IF target = "h" THEN hasher' ELSE clone'

\* a call on one of h and c, once c = h.copy() was made, leaves the other as
\* it was; digest() leaves the object it is called on as it was
IndependentStep ==
  MakesCall
    => /\ (Copied /\ Made.target = "c") => hasher' = hasher
       /\ (Copied /\ Made.target = "h") => clone' = clone
       /\ Made.op = "digest" => (hasher' = hasher /\ clone' = clone)

NewFails ==
  (calls[1].name \notin {"streebog256", "streebog512"} \/ ~IsByteObject(calls[1].data))
    => calls[1].raised # ""

\* update with an object that is not a byte object fails and leaves the
\* attributes as they were
UpdateFailsStep ==
  (MakesCall /\ Made.op = "update" /\ ~IsByteObject(Made.data))
    => (Made.raised # "" /\ hasher' = hasher /\ clone' = clone)

\* C13: hasher input errors.  update with an object that is not bytes or
\* bytearray raises and leaves h, n, sigma and the buffer as they were; new
\* with another name than 'streebog256' and 'streebog512' raises; new with data
\* that is not bytes or bytearray raises.
C13_InputErrors ==
  []NewFails /\ [][UpdateFailsStep]_vars

\* the attributes at construction, written out
AtConstruction(self) ==
  /\ self._hash_h = [i \in 1..64 |-> IF self._name = "streebog256" THEN 1 ELSE 0]
  /\ self._hash_n = [i \in 1..64 |-> 0]
  /\ self._hash_sigma = [i \in 1..64 |-> 0]
  /\ self._buff = << >>

\* the object named target after the calls cs made on an object self
RECURSIVE Replay(_, _, _)
Replay(self, cs, target) ==
  IF cs = << >> THEN self
  ELSE IF cs[1].target # target \/ cs[1].raised # "" THEN Replay(self, Tail(cs), target)
  ELSE IF cs[1].op = "update" THEN Replay(update(self, cs[1].data.bytes), Tail(cs), target)
  ELSE IF cs[1].op = "reset" THEN Replay(new(self._name, << >>), Tail(cs), target)
  ELSE Replay(self, Tail(cs), target)

\* the positions of the reset() calls on target
Resets(target) ==
  { i \in 2..Len(calls) : calls[i].op = "reset" /\ calls[i].target = target }

\* C14: reset.  Whatever calls came before, reset() leaves h, n, sigma and the
\* buffer at their values at construction for the name of the hasher, and the
\* hasher then is, and digests, as one made by new(name) and given the calls
\* that followed.
C14_ResetRestores ==
  \A target \in Targets : \A r \in Resets(target) :
    /\ r = Len(calls) => AtConstruction(Obj(target))
    /\ Obj(target) = Replay(new(calls[1].name, << >>), SubSeq(calls, r + 1, Len(calls)), target)
    /\ (r + 1 = Len(calls) /\ calls[r + 1].op = "digest" /\ calls[r + 1].target = target)
         => calls[r + 1].result = digest(new(calls[1].name, << >>))

C14_Witness ==
  /\ Len(calls) = 3
  /\ Len(calls[1].data.bytes) = 67 /\ calls[1].raised = ""
  /\ calls[2].op = "reset" /\ calls[2].target = "h"
  /\ calls[3].op = "update" /\ calls[3].target = "h" /\ Len(calls[3].data.bytes) = 61
  /\ calls[3].raised = ""
  /\ Len(hasher._buff) = 61

\* the last n bytes of b
LastBytes(b, n) ==
  SubSeq(b, Len(b) - n + 1, Len(b))

\* update leaves in the buffer the bytes of buffer + data after the last
\* complete block
BufferStep ==
  (MakesCall /\ Made.op = "update" /\ Made.raised = "")
    => ObjAfter(Made.target)._buff
         = LastBytes(ObjBefore(Made.target)._buff \o Made.data.bytes,
                     (Len(ObjBefore(Made.target)._buff) + Len(Made.data.bytes)) % 64)

BufferShort ==
  Len(hasher._buff) < 64 /\ Len(clone._buff) < 64

\* C20: the buffer.  After update(data) on a hasher whose buffer is b, the
\* buffer is the last (|b + data| mod 64) bytes of b + data, empty when that
\* length is a multiple of 64; its length is below 64 after any calls.
C20_BufferTail ==
  []BufferShort /\ [][BufferStep]_vars
(***************************************************************************)
(* Properties of runs on a signature object                                *)
(***************************************************************************)

\* the private key of the run as an integer
KeyValue ==
  bytearray_to_int(caller_key.bytes)

\* e of a digest of value v: v mod q, and 1 where that is 0
EOf(self, v) ==
  IF v % self._q = 0 THEN 1 ELSE v % self._q

\* q is a prime and the base point has order q: (q - 1) * (x, y) is (x, -y)
BasePointOrderQ(self) ==
  /\ \A i \in 2 .. self._q - 1 : self._q % i # 0
  /\ _mul_point(self, self._q - 1, << >>) = << self._x, (self._p - self._y) % self._p >>

\* the call returned: it neither raised nor runs for ever
Returned(out) ==
  out.raised = "" /\ ~out.hung

\* the run made the three calls, with d and k in [1, q), and the verifier was
\* handed what was made
RoundTripRun ==
  /\ Len(calls) = 3
  /\ calls[3].tamper.kind = "none"
  /\ KeyValue \in 1 .. sign_obj.self._q - 1
  /\ calls[2].out.sign_k \in 1 .. sign_obj.self._q - 1

\* C2 as stated: signature round trip.  On every object that new() returned,
\* with a private key d, 1 <= d < q, any digest and any k, 1 <= k < q, for
\* which sign returns, verify(public_key_generate(d), digest, sign(d, digest, k))
\* is True.
C2_RoundTrip ==
  RoundTripRun => (Returned(calls[3].out) /\ calls[3].out.result)

\* C2: signature round trip on the objects whose q is a prime and the order of
\* the base point (which __init__ does not check): with d and k in [1, q) and
\* any digest for which sign returns, verify of what public_key_generate and
\* sign returned is True.
C2_RoundTripOrderQ ==
  (RoundTripRun /\ BasePointOrderQ(sign_obj.self))
    => (Returned(calls[3].out) /\ calls[3].out.result)

C2_Witness ==
  /\ RoundTripRun
  /\ BasePointOrderQ(sign_obj.self)
  /\ sign_obj.self._size = SizeOf(MODE_512)
  /\ bytearray_to_int(calls[2].dgst) # 0
  /\ calls[3].out.result

\* C4: private-key wiping.  Once public_key_generate or sign has returned a
\* result or raised, the bytearray that the caller passed as private_key holds
\* zero bytes only.
C4_KeyWiped ==
  (Len(calls) \in {1, 2} /\ ~calls[Len(calls)].out.hung /\ caller_key.type = "bytearray")
    => caller_key.bytes = zero_fill(Len(caller_key.bytes))

\* what verify returns on what public_key_generate and sign returned
Untampered ==
  verify(sign_obj.self, calls[1].out.result, calls[2].dgst, calls[2].out.result)

\* the verifier was handed a signature that verifies, with one bit flipped in
\* one of r, s, digest, public_key
FlipRun ==
  /\ Len(calls) = 3
  /\ calls[3].tamper.kind = "flip"
  /\ Untampered.result

\* r and s as the verifier decodes them
DecodedR ==
  bytearray_to_int(Upto(calls[3].signature, sign_obj.self._size))

DecodedS ==
  bytearray_to_int(From(calls[3].signature, sign_obj.self._size))

OutOfRange ==
  \/ DecodedR \notin 1 .. sign_obj.self._q - 1
  \/ DecodedS \notin 1 .. sign_obj.self._q - 1

\* C5 as stated: tamper rejection.  If verify(pub, digest, sig) is True, then
\* verify is False with any one bit of r, of s, of digest or of pub flipped,
\* the flip of a digest of value 0 mod q into one of value 1 mod q included.
C5_TamperRejection ==
  FlipRun => (Returned(calls[3].out) /\ ~calls[3].out.result)

\* a flip that takes r or s out of (0, q) is rejected
FlipOutOfRangeRejected ==
  (FlipRun /\ calls[3].tamper.field \in {"r", "s"} /\ OutOfRange)
    => (Returned(calls[3].out) /\ ~calls[3].out.result)

\* a flip of the digest that leaves e as it was is accepted
FlipSameEAccepted ==
  (FlipRun /\ calls[3].tamper.field = "digest"
     /\ EOf(sign_obj.self, bytearray_to_int(calls[3].dgst))
          = EOf(sign_obj.self, bytearray_to_int(calls[2].dgst)))
    => (Returned(calls[3].out) /\ calls[3].out.result)

\* a flip of the digest that turns e into q - e is accepted, where q is a
\* prime and the order of the base point
FlipNegatedEAccepted ==
  (FlipRun /\ calls[3].tamper.field = "digest" /\ BasePointOrderQ(sign_obj.self)
     /\ EOf(sign_obj.self, bytearray_to_int(calls[3].dgst))
          = sign_obj.self._q - EOf(sign_obj.self, bytearray_to_int(calls[2].dgst)))
    => (Returned(calls[3].out) /\ calls[3].out.result)

\* C5: what one flipped bit does to a signature that verifies.  verify is
\* False when the flip takes r or s out of (0, q); verify is still True when
\* the flip of the digest leaves e = digest mod q (1 for 0) as it was, as the
\* flip of a digest of value 0 mod q into one of value 1 mod q does, or turns
\* e into q - e on a base point of prime order q.
C5_TamperOutcome ==
  FlipOutOfRangeRejected /\ FlipSameEAccepted /\ FlipNegatedEAccepted

C5_Witness ==
  /\ FlipRun
  /\ calls[3].tamper.field = "digest"
  /\ bytearray_to_int(calls[2].dgst) % sign_obj.self._q = 0
  /\ bytearray_to_int(calls[3].dgst) % sign_obj.self._q = 1
  /\ calls[3].out.result

\* the mode of an object that __init__ gave a size
ModeOf(self) ==
  IF self._size = SizeOf(MODE_256) THEN MODE_256 ELSE MODE_512

Constructed ==
  sign_obj.self._size \in {SizeOf(MODE_256), SizeOf(MODE_512)}

\* C6: size guard of the subgroup order.  new() fails for every q outside
\* [2^254, 2^256) in mode 256 and outside [2^508, 2^512) in mode 512 (at the
\* scale of the model: outside [QLow, QHigh)), the upper bound included.
C6_OrderSizeGuard ==
  (Constructed
     /\ (sign_obj.self._q < QLow(ModeOf(sign_obj.self))
           \/ sign_obj.self._q >= QHigh(ModeOf(sign_obj.self))))
    => sign_obj.raised # ""

\* C7: embedding-degree guard.  new() fails whenever p^i mod q = 1 mod q for
\* some i in [1, 31] in mode 256, for some i in [1, 131] in mode 512.
C7_EmbeddingGuard ==
  (Constructed
     /\ \E i \in 1 .. (IF ModeOf(sign_obj.self) = MODE_256 THEN 31 ELSE 131) :
          PowMod(sign_obj.self._p, i, sign_obj.self._q) = 1 % sign_obj.self._q)
    => sign_obj.raised # ""

\* C8: the scalar that sign passes to _mul_point is below q, whether drawn
\* from os.urandom or passed as rand_k.
C8_ScalarBelowQ ==
  (Len(calls) >= 2 /\ calls[2].out.sign_k # -1)
    => calls[2].out.sign_k < sign_obj.self._q

\* the group of the curve, with which the points that sign computes are
\* compared: Infinity is its neutral element, points are << x, y >>
Infinity ==
  << >>

\* base ^ exp mod n, bit by bit from the lowest: st = << base ^ (2 ^ i), the
\* product so far >>
RECURSIVE RefPower(_, _, _)
RefPower(exp, n, st) ==
  IF exp = 0 \/ ~Now(st) THEN st[2]
  ELSE RefPower(exp \div 2, n,
                << MulMod(st[1], st[1], n),
                   IF exp % 2 = 1 THEN MulMod(st[2], st[1], n) ELSE st[2] >>)

\* 1 / value mod the prime p
RefInverse(self, value) ==
  RefPower(self._p - 2, self._p, << value % self._p, 1 >>)

\* the point on the line of slope grad through point_1 and point_2
RefThird(self, point_1, point_2, grad) ==
  << (MulMod(grad, grad, self._p) - point_1[1] - point_2[1]) % self._p,
     (MulMod(grad,
             point_1[1] - (MulMod(grad, grad, self._p) - point_1[1] - point_2[1]),
             self._p) - point_1[2]) % self._p >>

RefAdd(self, point_1, point_2) ==
  IF point_1 = Infinity THEN point_2
  ELSE IF point_2 = Infinity THEN point_1
  ELSE IF point_1[1] = point_2[1] /\ (point_1[2] + point_2[2]) % self._p = 0 THEN Infinity
  ELSE IF point_1 = point_2
  THEN RefThird(self, point_1, point_2,
                MulMod(3 * MulMod(point_1[1], point_1[1], self._p) + self._a,
                       RefInverse(self, 2 * point_1[2]), self._p))
  ELSE RefThird(self, point_1, point_2,
                MulMod(point_2[2] - point_1[2],
                       RefInverse(self, point_2[1] - point_1[1]), self._p))

RefDouble(self, point) ==
  RefAdd(self, point, point)

\* value * (x, y), bit by bit from the lowest: st = << 2^i * (x, y), the sum so far >>
RECURSIVE RefLoop(_, _, _)
RefLoop(self, value, st) ==
  IF value = 0 \/ ~Now(st) THEN st[2]
  ELSE RefLoop(self, value \div 2,
               << RefDouble(self, st[1]),
                  IF value % 2 = 1 THEN RefAdd(self, st[2], st[1]) ELSE st[2] >>)

RefMul(self, value) ==
  RefLoop(self, value, << << self._x, self._y >>, Infinity >>)

\* r and s of the bytes that sign returned
SignedR ==
  bytearray_to_int(Upto(calls[2].out.result, sign_obj.self._size))

SignedS ==
  bytearray_to_int(From(calls[2].out.result, sign_obj.self._size))

\* r is x(k * G) mod q for the k that sign used
RIsXOfKG(self, point) ==
  point # Infinity /\ SignedR = point[1] % self._q

\* C9: what sign returns.  It is 2 * size bytes, the big-endian encoding of r
\* followed by that of s, where r = x(k * G) mod q, s = (r * priv + k * e) mod q,
\* 0 < r < q and 0 < s < q.
C9_SignResult ==
  (Len(calls) = 2 /\ Returned(calls[2].out))
    => /\ Len(calls[2].out.result) = 2 * sign_obj.self._size
       /\ calls[2].out.result
            = int_to_bytearray(SignedR, sign_obj.self._size)
                \o int_to_bytearray(SignedS, sign_obj.self._size)
       /\ RIsXOfKG(sign_obj.self, RefMul(sign_obj.self, calls[2].out.sign_k))
       /\ SignedS = (MulMod(SignedR, KeyValue, sign_obj.self._q)
                       + MulMod(calls[2].out.sign_k,
                                EOf(sign_obj.self, bytearray_to_int(calls[2].dgst)),
                                sign_obj.self._q)) % sign_obj.self._q
       /\ SignedR \in 1 .. sign_obj.self._q - 1
       /\ SignedS \in 1 .. sign_obj.self._q - 1

\* C10: verify returns False, and computes no point, whenever the signature
\* has 2 * size bytes and r or s is outside (0, q).
C10_RangeReject ==
  (Len(calls) = 3 /\ Len(calls[3].signature) = 2 * sign_obj.self._size /\ OutOfRange)
    => /\ Returned(calls[3].out)
       /\ ~calls[3].out.result
       /\ calls[3].out.points = << >>

C10_Witness ==
  /\ Len(calls) = 3
  /\ Len(calls[3].signature) = 2 * sign_obj.self._size
  /\ DecodedR = 0
  /\ DecodedS \in 1 .. sign_obj.self._q - 1
  /\ ~calls[3].out.result
  /\ calls[3].out.points = << >>

(***************************************************************************)
(* Properties of the arguments and results of sign, verify and             *)
(* public_key_generate                                                     *)
(***************************************************************************)

\* the call ends in an exception and returns nothing
EndsInError(out) ==
  out.raised # "" /\ ~out.hung

\* the private key passed is a byte object of size bytes
KeyFits ==
  IsKey(caller_key) /\ Len(caller_key.bytes) = sign_obj.self._size

\* the i-th call is one the claim names: a call of sign or
\* public_key_generate with a private key that is not a byte object of size
\* bytes, of sign with a rand_k of another length than size, or of verify with a
\* signature of another length than 2 * size
BadSizeCall(i) ==
  \/ calls[i].op \in {"sign", "public_key_generate"} /\ ~KeyFits
  \/ calls[i].op = "sign" /\ ~calls[i].rand_k.none
       /\ Len(calls[i].rand_k.bytes) # sign_obj.self._size
  \/ calls[i].op = "verify" /\ Len(calls[i].signature) # 2 * sign_obj.self._size

\* C11: size validation.  sign with a private key that is not a byte object of
\* size bytes, sign with a supplied rand_k of another length than size,
\* public_key_generate with such a private key, and verify with a signature of
\* another length than 2 * size each raise, returning no signature, public key
\* or boolean.
C11_SizeValidation ==
  \A i \in 1..Len(calls) :
    BadSizeCall(i)
      => /\ EndsInError(calls[i].out)
         /\ calls[i].op = "verify" => (~calls[i].out.result /\ calls[i].out.points = << >>)
         /\ calls[i].op # "verify" => (calls[i].out.result = << >> /\ calls[i].out.sign_k = -1)

C11_Witness ==
  /\ Len(calls) = 3
  /\ calls[3].tamper.kind = "size"
  /\ Len(calls[3].signature) = 2 * sign_obj.self._size + 1
  /\ calls[3].out.raised = "ValueError: invalid signature size"

\* new() was given a curve of one of the shapes it constructs an object for
Attempted ==
  "_m" \in DOMAIN sign_obj.self

\* y^2 = x^3 + a * x + b (mod p) for the base point of the object
BasePointOnCurve(self) ==
  (MulMod(self._y, self._y, self._p)
     - MulMod(MulMod(self._x, self._x, self._p), self._x, self._p)
     - MulMod(self._a, self._x, self._p) - self._b) % self._p = 0

\* C15: every object that new() returns has m # p and a base point on its
\* curve, whether a, b, x, y were given or derived from e, d, u, v; new() with
\* m = p or with a base point off the curve fails.
C15_ContextInvariant ==
  /\ sign_obj.raised = "" => (sign_obj.self._m # sign_obj.self._p /\ BasePointOnCurve(sign_obj.self))
  /\ (Attempted /\ (sign_obj.self._m = sign_obj.self._p \/ ~BasePointOnCurve(sign_obj.self)))
       => sign_obj.raised # ""

C15_Witness ==
  /\ sign_obj.raised = ""
  /\ sign_obj.self = Attributes(MODE_512, Edvards512)
  /\ sign_obj.self._x = 10406 /\ sign_obj.self._y = 8944
  /\ Len(calls) = 1

\* public_key_generate was called with a private key d of size bytes,
\* 1 <= d < q
PublicKeyRun ==
  /\ Len(calls) >= 1
  /\ KeyFits
  /\ KeyValue \in 1 .. sign_obj.self._q - 1

\* the call returned the encoding of the point: size bytes of x, then size
\* bytes of y
Encodes(out, point) ==
  /\ Returned(out)
  /\ point # Infinity
  /\ Len(out.result) = 2 * sign_obj.self._size
  /\ point[1] < 256 ^ sign_obj.self._size /\ point[2] < 256 ^ sign_obj.self._size
  /\ \A i \in 1..sign_obj.self._size :
       /\ out.result[i] = (point[1] \div 256 ^ (sign_obj.self._size - i)) % 256
       /\ out.result[sign_obj.self._size + i]
            = (point[2] \div 256 ^ (sign_obj.self._size - i)) % 256

\* C16 as stated: on every object that new() returned, public_key_generate(d)
\* with a private key d of size bytes, 1 <= d < q, returns 2 * size bytes, the
\* big-endian encoding of x of d * G followed by that of y of d * G.
C16_PublicKey ==
  PublicKeyRun => Encodes(calls[1].out, RefMul(sign_obj.self, KeyValue))

\* C16: on the objects whose q is a prime and the order of the base point G,
\* public_key_generate(d) with a private key d of size bytes, 1 <= d < q,
\* returns 2 * size bytes, the big-endian encoding of x of d * G followed by
\* that of y of d * G.
C16_PublicKeyOrderQ ==
  (PublicKeyRun /\ BasePointOrderQ(sign_obj.self))
    => Encodes(calls[1].out, RefMul(sign_obj.self, KeyValue))

C16_Witness ==
  /\ PublicKeyRun
  /\ BasePointOrderQ(sign_obj.self)
  /\ KeyValue = 223
  /\ sign_obj.self._size = SizeOf(MODE_512)
  /\ Len(calls) = 1
  /\ calls[1].out.result[1] # 0

\* the run made two calls of sign that both returned, with the same private
\* key, the same digest and the same rand_k passed by the caller
SignedTwice ==
  /\ Len(calls) = 4
  /\ calls[4].op = "sign"
  /\ ~calls[4].rand_k.none
  /\ calls[4].rand_k = calls[2].rand_k
  /\ calls[4].dgst = calls[2].dgst
  /\ Returned(calls[2].out) /\ Returned(calls[4].out)

\* C17: determinism under a fixed rand_k.  Two calls of sign on one object with
\* the same private key, digest and rand_k that both return give the same
\* bytes, whatever was called in between and whatever os.urandom holds.
C17_Determinism ==
  SignedTwice => calls[4].out.result = calls[2].out.result

C17_Witness ==
  /\ SignedTwice
  /\ calls[4].urandom # calls[2].urandom
  /\ calls[3].out.result
  /\ calls[4].out.result = calls[2].out.result
  /\ Len(calls[4].out.result) = 2 * sign_obj.self._size

\* C19: every scalar that sign, verify and public_key_generate pass to
\* _mul_point is at least 1, so that the loop over the bits of the scalar less
\* one ends: with any private key of size bytes (that of zero bytes too), any
\* k drawn or passed that sign accepts (0 too) and any r, s in (0, q).
C19_ScalarAtLeastOne ==
  \A i \in 1..Len(calls) :
    /\ (calls[i].op \in {"sign", "public_key_generate"} /\ calls[i].out.sign_k # -1)
         => calls[i].out.sign_k >= 1
    /\ calls[i].op = "verify" => ~calls[i].out.hung

\* the point the verifier decodes from the public_key argument
DecodedKey ==
  << bytearray_to_int(Upto(calls[3].public_key, sign_obj.self._size)),
     bytearray_to_int(From(calls[3].public_key, sign_obj.self._size)) >>

\* sign_z_2 of the call of verify
VerifyZ2 ==
  sign_obj.self._q
    - MulMod(DecodedR, _invert(SignE(sign_obj.self, calls[3].dgst), sign_obj.self._q),
             sign_obj.self._q)

\* the loop of _mul_point run on a given point
MulOn(self, mul_value, point) ==
  MulLoop(self, mul_value - 1, << point, point >>)

\* verify computed sign_q
SecondMulRun ==
  /\ Len(calls) >= 3
  /\ calls[3].op = "verify"
  /\ Len(calls[3].out.points) >= 2

\* C21: in verify, the second scalar multiplication z2 * Q is performed on the
\* point (Q_x, Q_y) decoded from the public_key argument, never on the base
\* point of the object, for every public_key, the one of zero bytes included.
C21_SecondMulOnPublicKey ==
  SecondMulRun => calls[3].out.points[2] = MulOn(sign_obj.self, VerifyZ2, DecodedKey)

(***************************************************************************)
(* Properties of the loops of sign                                         *)
(***************************************************************************)

\* os.urandom has yielded values of [1, q) only
DrawnInRange ==
  frame.sign_rand_k = << >>
    \/ bytearray_to_int(frame.sign_rand_k) \in RangeValues(sign_obj.self)

SignReturned ==
  frame.pc = "done"

\* C18: the retry loop of sign.  Whenever r or s comes out zero sign draws a new
\* k and computes r again before it computes s again; so, with rand_k None and
\* os.urandom yielding every value of [1, q) again and again, sign returns in
\* the end, for every private key of size bytes and every digest.
C18_SignReturns ==
  []DrawnInRange => <>SignReturned

(***************************************************************************)
(* Runs of _mul_point, followed iteration by iteration, on the objects     *)
(* whose q is a prime and the order of the base point                      *)
(***************************************************************************)

\* objects of a curve of q points, of the curve whose base point has x = 0,
\* and of a curve of 4 * q points given by e, d, u, v
MulObjects ==
  { SignNew(MODE_256, Valid256), SignNew(MODE_256, Order256), SignNew(MODE_512, Edvards512) }

\* what is passed as x_op, y_op: nothing, or a multiple of the base point
MulPoints(self) ==
  { << >> } \cup { RefMul(self, j) : j \in 1 .. MaxPoint }

\* what is passed as mul_value by a caller that keeps to [1, q): every value
\* of [1, q) in mode 256; in mode 512 those next to 1, to q and to the
\* multiples of 64
MulValues(self) ==
  IF self._size = SizeOf(MODE_256) THEN 1 .. self._q - 1
  ELSE { k \in 1 .. self._q - 1 : k < 64 \/ k > self._q - 64 \/ k % 64 \in {0, 1, 63} }

MulInit ==
  \E made \in MulObjects :
    /\ sign_obj = made
    /\ caller_key = NoKey
    /\ frame = NoFrame
    /\ calls = << >>
    /\ hasher = NoHasher
    /\ clone = NoHasher

\* self._mul_point(mul_value, x_op, y_op), up to the loop: value is what _bits
\* is left with
MulCall(mul_value, op) ==
  /\ frame.pc = "none"
  /\ frame' = [pc |-> "bits", mul_value |-> mul_value, op |-> op,
               value |-> mul_value - 1,
               prev |-> MulStart(sign_obj.self, op), next |-> MulStart(sign_obj.self, op)]
  /\ UNCHANGED << hasher, clone, sign_obj, caller_key, calls >>

\* one iteration of the loop over _bits(mul_value)
MulIterate ==
  /\ frame.pc = "bits"
  /\ frame.value > 0
  /\ frame' = [frame EXCEPT
                 !.value = frame.value \div 2,
                 !.prev = MulBit(sign_obj.self, frame.value, frame.prev, frame.next)[1],
                 !.next = MulBit(sign_obj.self, frame.value, frame.prev, frame.next)[2]]
  /\ UNCHANGED << hasher, clone, sign_obj, caller_key, calls >>

\* _bits is exhausted: return x_next, y_next
MulReturn ==
  /\ frame.pc = "bits"
  /\ frame.value = 0
  /\ frame' = [frame EXCEPT !.pc = "return"]
  /\ UNCHANGED << hasher, clone, sign_obj, caller_key, calls >>

MulNext ==
  \/ \E mul_value \in MulValues(sign_obj.self), op \in MulPoints(sign_obj.self) :
       MulCall(mul_value, op)
  \/ MulIterate
  \/ MulReturn

SpecMul == MulInit /\ [][MulNext]_vars

(***************************************************************************)
(* Properties of _mul_point                                                *)
(***************************************************************************)

\* the point the caller means: the one passed, the base point otherwise
MulPointOf(self, op) ==
  IF op = << >> THEN << self._x, self._y >> ELSE op

\* value * point in the group of the curve
RefTimes(self, value, point) ==
  RefLoop(self, value, << point, Infinity >>)

\* the point is on the curve and has order q, a prime
PrimeOrderQ(self, point) ==
  /\ \A i \in 2 .. self._q - 1 : self._q % i # 0
  /\ MulMod(point[2], point[2], self._p)
       = (PowMod(point[1], 3, self._p) + MulMod(point[1], self._a, self._p) + self._b)
           % self._p
  /\ RefTimes(self, self._q, point) = Infinity

\* the points of the runs that are on the curve of their object and have
\* order q, a prime
OrderQPoints ==
  [made \in MulObjects |->
     { op \in MulPoints(made.self) : PrimeOrderQ(made.self, MulPointOf(made.self, op)) }]

\* a call of _mul_point with 1 <= mul_value < q on a point of order q
MulRun ==
  /\ frame.pc \in {"bits", "return"}
  /\ frame.mul_value \in 1 .. sign_obj.self._q - 1
  /\ frame.op \in OrderQPoints[sign_obj]

\* the sum of the two points is the point at infinity
SumIsInfinity(self, point_1, point_2) ==
  RefAdd(self, point_1, point_2) = Infinity

\* the iteration at hand adds x_prev, y_prev to x_next, y_next
Adds ==
  frame.pc = "bits" /\ frame.value % 2 = 1

\* the iteration at hand doubles x_prev, y_prev for a later iteration to add
DoublesForLater ==
  frame.pc = "bits" /\ frame.value \div 2 > 0

\* C22: _mul_point(k, P) returns k * P, P added to itself k times in the group
\* of the curve, for every point P of prime order q on the curve and every k,
\* 1 <= k < q; no addition, and no doubling whose result a later iteration
\* adds, has the point at infinity for its result.
C22_ScalarMul ==
  MulRun
    => /\ Adds => ~SumIsInfinity(sign_obj.self, frame.next, frame.prev)
       /\ DoublesForLater => ~SumIsInfinity(sign_obj.self, frame.prev, frame.prev)
       /\ frame.pc = "return"
            => frame.next = RefTimes(sign_obj.self, frame.mul_value,
                                     MulPointOf(sign_obj.self, frame.op))

\* the call returned (q - 1) * P = -P for a point passed with x = 0
C22_Witness ==
  /\ MulRun
  /\ frame.pc = "return"
  /\ frame.mul_value = sign_obj.self._q - 1
  /\ frame.op # << >>
  /\ frame.op[1] = 0
  /\ frame.next = << 0, (sign_obj.self._p - frame.op[2]) % sign_obj.self._p >>

(***************************************************************************)
(* The compression function _hash_g applied to blocks                      *)
(***************************************************************************)

\* a block of 64 bytes for a number: zero bytes for 0, bytes that differ from
\* one place to the next otherwise
BlockOf(seed) ==
  SubSeq([i \in 1.._BLOCK_SIZE |-> (seed * (i + seed) * 37) % 256], 1, _BLOCK_SIZE)

Blocks ==
  { BlockOf(seed) : seed \in 0 .. MaxSeed }

GInit ==
  /\ hasher = NoHasher
  /\ clone = NoHasher
  /\ sign_obj = NoSignObj
  /\ caller_key = NoKey
  /\ frame = NoFrame
  /\ calls = << >>

\* self._hash_g(hash_h, hash_n, data)
HashG(hash_h, hash_n, data) ==
  /\ frame.pc = "none"
  /\ frame' = [pc |-> "_hash_g", hash_h |-> hash_h, hash_n |-> hash_n, data |-> data,
               result |-> _hash_g(hash_h, hash_n, data)]
  /\ UNCHANGED << hasher, clone, sign_obj, caller_key, calls >>

GNext ==
  \E hash_h \in Blocks, hash_n \in Blocks, data \in Blocks : HashG(hash_h, hash_n, data)

SpecG == GInit /\ [][GNext]_vars

(***************************************************************************)
(* Properties of the compression function                                  *)
(***************************************************************************)

\* LPS(x) = L(P(S(x)))
LPS(x) ==
  _hash_l(_hash_p(_hash_s(x)))

\* the key schedule from K(i) = key up to K(stop): K(i + 1) = LPS(K(i) xor C[i])
RECURSIVE RoundKeyFrom(_, _, _)
RoundKeyFrom(key, i, stop) ==
  IF i = stop \/ ~Now(key) THEN key
  ELSE RoundKeyFrom(LPS(add_xor(key, _C[i + 1])), i + 1, stop)

\* K(i) of the key schedule that starts from K(0) = k_0
RoundKey(k_0, i) ==
  RoundKeyFrom(k_0, 0, i)

\* the rounds from the state after i of them on: state = LPS(state) xor K(i + 1)
RECURSIVE RoundsFrom(_, _, _)
RoundsFrom(k_0, state, i) ==
  IF i = 12 \/ ~Now(state) THEN state
  ELSE RoundsFrom(k_0, add_xor(LPS(state), RoundKey(k_0, i + 1)), i + 1)

\* E(K0, x): the state after the 12 rounds that start from x xor K0
E12(k_0, x) ==
  RoundsFrom(k_0, add_xor(x, k_0), 0)

\* a call of _hash_g was made
GRun ==
  frame.pc = "_hash_g"

\* C23 as stated: G(h, n, m) = E(K0, h) xor h xor m with K0 = LPS(h xor n),
\* where E makes 12 rounds state = LPS(state) xor K(i + 1) from state = (its
\* second argument) xor K0, with K(i + 1) = LPS(K(i) xor C[i]).
C23_CompressionOnH ==
  GRun => frame.result
            = add_xor(add_xor(E12(LPS(add_xor(frame.hash_h, frame.hash_n)), frame.hash_h),
                              frame.hash_h),
                      frame.data)

\* C23: G(h, n, m) = E(K0, m) xor h xor m with K0 = LPS(h xor n): the 12 rounds
\* of E, state = LPS(state) xor K(i + 1) from state = m xor K0 with
\* K(i + 1) = LPS(K(i) xor C[i]), are made on the block m, not on h.
C23_Compression ==
  GRun => frame.result
            = add_xor(add_xor(E12(LPS(add_xor(frame.hash_h, frame.hash_n)), frame.data),
                              frame.hash_h),
                      frame.data)

C23_Witness ==
  /\ GRun
  /\ frame.hash_h # frame.data
  /\ frame.hash_n = BlockOf(1)
  /\ frame.data = BlockOf(2)
  /\ frame.result
       = add_xor(add_xor(E12(LPS(add_xor(frame.hash_h, frame.hash_n)), frame.data),
                         frame.hash_h),
                 frame.data)

(***************************************************************************)
(* Runs that end in a digest: new, one update that leaves a tail of any    *)
(* length, digest                                                          *)
(***************************************************************************)

\* what is fed: nothing or a block of bytes 255, then 0 to 63 bytes 255
FinalData ==
  { Chunk(blocks * _BLOCK_SIZE + r, 255) : blocks \in {0, 1}, r \in 0 .. _BLOCK_SIZE - 1 }

FinalInit ==
  \E name \in HashNames :
    /\ hasher = new(name, << >>)
    /\ clone = NoHasher
    /\ sign_obj = NoSignObj
    /\ caller_key = NoKey
    /\ frame = NoFrame
    /\ calls = << [op |-> "new", name |-> name, data |-> << >>] >>

\* hasher.update(data)
FinalUpdate(data) ==
  /\ Len(calls) = 1
  /\ hasher' = update(hasher, data)
  /\ calls' = Append(calls, [op |-> "update", data |-> data])
  /\ UNCHANGED << clone, sign_obj, caller_key, frame >>

\* hasher.digest(): hash_final acts on the copy, hasher is left as it was
FinalDigest ==
  /\ calls[Len(calls)].op # "digest"
  /\ hasher' = AfterDigest(hasher)
  /\ calls' = Append(calls, [op |-> "digest", result |-> digest(hasher)])
  /\ UNCHANGED << clone, sign_obj, caller_key, frame >>

FinalNext ==
  \/ \E data \in FinalData : FinalUpdate(data)
  \/ FinalDigest

SpecFinal == FinalInit /\ [][FinalNext]_vars

(***************************************************************************)
(* Properties of the finalization                                          *)
(***************************************************************************)

\* the carry into byte i of the sum of two little-endian numbers
RECURSIVE CarryInto(_, _, _)
CarryInto(op_a, op_b, i) ==
  IF i = 1 THEN 0
  ELSE (op_a[i - 1] + op_b[i - 1] + CarryInto(op_a, op_b, i - 1)) \div 256

\* the sum mod 2^512 of two numbers of 64 bytes, least significant byte first
Sum512(op_a, op_b) ==
  SubSeq([i \in 1.._BLOCK_SIZE |-> (op_a[i] + op_b[i] + CarryInto(op_a, op_b, i)) % 256],
         1, _BLOCK_SIZE)

\* a number below 2^16 on 64 bytes, least significant byte first
Little(number) ==
  SubSeq([i \in 1.._BLOCK_SIZE |->
            IF i = 1 THEN number % 256 ELSE IF i = 2 THEN number \div 256 ELSE 0],
         1, _BLOCK_SIZE)

\* tail || 0x01 || (63 - r) zero bytes
Padded(tail) ==
  tail \o << 1 >> \o zero_fill(_BLOCK_SIZE - 1 - Len(tail))

\* h after the three compressions of the finalization
FinalH(self) ==
  _hash_g(_hash_g(_hash_g(self._hash_h, self._hash_n, Padded(self._buff)),
                  _V_0,
                  Sum512(self._hash_n, Little(8 * Len(self._buff)))),
          _V_0,
          Sum512(self._hash_sigma, Padded(self._buff)))

\* all of h for streebog512, its last 32 bytes for streebog256
DigestOf(self, hash_h) ==
  IF self._name = "streebog512" THEN hash_h ELSE SubSeq(hash_h, 33, 64)

\* the last call is a digest, on a hasher with a tail of 0 to 63 bytes
FinalRun ==
  /\ calls[Len(calls)].op = "digest"
  /\ Len(hasher._buff) \in 0 .. 63

\* C24: finalization with a buffered tail of r bytes, 0 <= r <= 63.  The block
\* tail || 0x01 || (63 - r) zero bytes is compressed under the counter n as it
\* was, then 8 * r is added to n and the block to sigma, mod 2^512, then
\* h = G(h, V0, n) and h = G(h, V0, sigma); the digest is h for streebog512 and
\* the last 32 bytes of h for streebog256.
C24_Finalization ==
  FinalRun => calls[Len(calls)].result = DigestOf(hasher, FinalH(hasher))

\* a digest of streebog256 with a tail of 63 bytes, where the sum of sigma and
\* the padded block passes 2^512
C24_Witness ==
  /\ FinalRun
  /\ hasher._name = "streebog256"
  /\ Len(hasher._buff) = 63
  /\ hasher._hash_sigma = Chunk(_BLOCK_SIZE, 255)
  /\ Sum512(hasher._hash_sigma, Padded(hasher._buff))[_BLOCK_SIZE] = 1
  /\ Len(calls[Len(calls)].result) = 32
  /\ calls[Len(calls)].result = DigestOf(hasher, FinalH(hasher))

(***************************************************************************)
(* Runs that follow the counters of a hash object: new, then update,       *)
(* digest, hexdigest, copy and reset in any order                          *)
(***************************************************************************)

\* the blocks that update compresses: the complete blocks of self._buff + data
UpdateBlocks(self, data) ==
  SubSeq([j \in 1 .. (Len(self._buff \o data) \div _BLOCK_SIZE) |->
            SubSeq(self._buff \o data, (j - 1) * _BLOCK_SIZE + 1, j * _BLOCK_SIZE)],
         1, Len(self._buff \o data) \div _BLOCK_SIZE)

\* bytes.hex: two hexadecimal digits for a byte
HexDigits ==
  << "0", "1", "2", "3", "4", "5", "6", "7", "8", "9", "a", "b", "c", "d", "e", "f" >>

hex(b) ==
  SubSeq([i \in 1 .. 2 * Len(b) |->
            IF i % 2 = 1 THEN HexDigits[(b[(i + 1) \div 2] \div 16) + 1]
            ELSE HexDigits[(b[i \div 2] % 16) + 1]],
         1, 2 * Len(b))

\* GOST34112012.hexdigest
hexdigest(self) ==
  hex(digest(self))

\* data passed to new: nothing, or a block and a tail of 3 bytes
CountInitialData ==
  { << >>, Chunk(67, 255) }

\* data passed to update: what completes a tail of 3 bytes to a block, and two blocks
CountData ==
  { Chunk(61, 255), Chunk(128, 200) }

CountInit ==
  \E name \in HashNames, data \in CountInitialData :
    /\ hasher = new(name, data)
    /\ clone = NoHasher
    /\ sign_obj = NoSignObj
    /\ caller_key = NoKey
    /\ frame = NoFrame
    /\ calls = << [op |-> "new", blocks |-> UpdateBlocks(InitialAttributes(name), data),
                    result |-> << >>] >>

\* hasher.update(data)
CountUpdate(data) ==
  /\ Len(calls) <= MaxOps
  /\ hasher' = update(hasher, data)
  /\ calls' = Append(calls, [op |-> "update", blocks |-> UpdateBlocks(hasher, data),
                             result |-> << >>])
  /\ UNCHANGED << clone, sign_obj, caller_key, frame >>

\* hasher.digest()
CountDigest ==
  /\ Len(calls) <= MaxOps
  /\ hasher' = AfterDigest(hasher)
  /\ calls' = Append(calls, [op |-> "digest", blocks |-> << >>, result |-> digest(hasher)])
  /\ UNCHANGED << clone, sign_obj, caller_key, frame >>

\* hasher.hexdigest()
CountHexdigest ==
  /\ Len(calls) <= MaxOps
  /\ hasher' = AfterDigest(hasher)
  /\ calls' = Append(calls, [op |-> "hexdigest", blocks |-> << >>,
                             result |-> hexdigest(hasher)])
  /\ UNCHANGED << clone, sign_obj, caller_key, frame >>

\* clone = hasher.copy()
CountCopy ==
  /\ Len(calls) <= MaxOps
  /\ clone' = copy(hasher)
  /\ calls' = Append(calls, [op |-> "copy", blocks |-> << >>, result |-> << >>])
  /\ UNCHANGED << hasher, sign_obj, caller_key, frame >>

\* hasher.reset()
CountReset ==
  /\ Len(calls) <= MaxOps
  /\ hasher' = reset(hasher)
  /\ calls' = Append(calls, [op |-> "reset", blocks |-> << >>, result |-> << >>])
  /\ UNCHANGED << clone, sign_obj, caller_key, frame >>

CountNext ==
  \/ \E data \in CountData : CountUpdate(data)
  \/ CountDigest
  \/ CountHexdigest
  \/ CountCopy
  \/ CountReset

SpecCount == CountInit /\ [][CountNext]_vars

(***************************************************************************)
(* Properties of the counters n and sigma                                  *)
(***************************************************************************)

\* the blocks compressed since construction or the last reset
RECURSIVE Counted(_)
Counted(cs) ==
  IF cs = << >> \/ cs[Len(cs)].op = "reset" THEN << >>
  ELSE Counted(SubSeq(cs, 1, Len(cs) - 1)) \o cs[Len(cs)].blocks

\* the sum of byte i of the blocks
RECURSIVE Column(_, _)
Column(blocks, i) ==
  IF blocks = << >> THEN 0
  ELSE Column(SubSeq(blocks, 1, Len(blocks) - 1), i) + blocks[Len(blocks)][i]

\* what the columns below byte i carry into it
RECURSIVE ColumnCarry(_, _)
ColumnCarry(blocks, i) ==
  IF i = 1 THEN 0
  ELSE (Column(blocks, i - 1) + ColumnCarry(blocks, i - 1)) \div 256

\* the sum mod 2^512 of the blocks, read least significant byte first
SumOfBlocks(blocks) ==
  SubSeq([i \in 1.._BLOCK_SIZE |-> (Column(blocks, i) + ColumnCarry(blocks, i)) % 256],
         1, _BLOCK_SIZE)

\* n is 512 times the number of blocks compressed since construction or the
\* last reset, sigma their sum
CountersOfBlocks ==
  /\ hasher._hash_n = Little(512 * Len(Counted(calls)))
  /\ hasher._hash_n[1] = 0 /\ hasher._hash_n[2] % 2 = 0
  /\ hasher._hash_sigma = SumOfBlocks(Counted(calls))

\* the step at hand changes n or sigma
CountersChange ==
  hasher'._hash_n # hasher._hash_n \/ hasher'._hash_sigma # hasher._hash_sigma

\* C25 as stated: after any sequence of update, digest, hexdigest, copy and
\* reset, n is the little-endian encoding of 512 times the number of blocks
\* compressed since construction or the last reset, a multiple of 512, and
\* sigma is the sum mod 2^512 of those blocks; only update changes them.
C25_CountersOnlyUpdate ==
  /\ []CountersOfBlocks
  /\ [][CountersChange => calls'[Len(calls')].op = "update"]_vars

\* C25: after any sequence of update, digest, hexdigest, copy and reset, n is
\* the little-endian encoding of 512 times the number of blocks compressed
\* since construction or the last reset, a multiple of 512, and sigma is the
\* sum mod 2^512 of those blocks; only update and reset change them, and reset
\* sets both to zero.
C25_Counters ==
  /\ []CountersOfBlocks
  /\ [][CountersChange => calls'[Len(calls')].op \in {"update", "reset"}]_vars
  /\ [][calls'[Len(calls')].op = "reset"
          => (hasher'._hash_n = _V_0 /\ hasher'._hash_sigma = _V_0)]_vars

\* two updates after a reset: the three blocks compressed since the reset are
\* counted, the one before it is not, and their sum has passed 2^512
C25_Witness ==
  /\ Len(calls) = 3
  /\ calls[1].op = "new" /\ Len(calls[1].blocks) = 1
  /\ calls[2].op = "reset"
  /\ calls[3].op = "update" /\ Len(calls[3].blocks) = 2
  /\ hasher._hash_n = Little(1024)
  /\ hasher._hash_sigma = SumOfBlocks(calls[3].blocks)
  /\ hasher._hash_sigma[_BLOCK_SIZE] = 145

(***************************************************************************)
(* _invert applied to integers of either sign                              *)
(***************************************************************************)

InvertInit ==
  /\ hasher = NoHasher
  /\ clone = NoHasher
  /\ sign_obj = NoSignObj
  /\ caller_key = NoKey
  /\ frame = NoFrame
  /\ calls = << >>

\* GOST34102012._invert(value, n_mod)
InvertCall(value, n_mod) ==
  /\ frame.pc = "none"
  /\ frame' = [pc |-> "_invert", value |-> value, n_mod |-> n_mod,
               result |-> _invert(value, n_mod)]
  /\ UNCHANGED << hasher, clone, sign_obj, caller_key, calls >>

InvertNext ==
  \E value \in -MaxValue .. MaxValue, n_mod \in 2 .. MaxModulus : InvertCall(value, n_mod)

SpecInvert == InvertInit /\ [][InvertNext]_vars

(***************************************************************************)
(* Properties of _invert                                                   *)
(***************************************************************************)

\* gcd(a, n) = 1, for n >= 2
Coprime(a, n) ==
  \A d \in 2 .. n : ~(n % d = 0 /\ a % d = 0)

\* inverse * a = 1 (mod n): the residue of a is multiplied, so that the product
\* is that of two numbers below n
IsInverse(a, n, inverse) ==
  ((a % n) * inverse) % n = 1

\* _invert was called on a value that has an inverse
InvertRun ==
  /\ frame.pc = "_invert"
  /\ frame.n_mod >= 2
  /\ Coprime(frame.value, frame.n_mod)

\* C26: _invert(a, n) returns, for every n >= 2 and every integer a, negative
\* or larger than n included, with gcd(a, n) = 1, the one r with 0 <= r < n and
\* a * r = 1 (mod n).
C26_Inverse ==
  InvertRun
    => /\ frame.result \in 0 .. frame.n_mod - 1
       /\ IsInverse(frame.value, frame.n_mod, frame.result)
       /\ \A r \in 0 .. frame.n_mod - 1 :
            IsInverse(frame.value, frame.n_mod, r) => r = frame.result

\* a negative value whose coefficient gcdex returns negative
C26_Witness ==
  /\ InvertRun
  /\ frame.value < -frame.n_mod
  /\ gcdex(frame.value, frame.n_mod)[2] < 0
  /\ frame.result = gcdex(frame.value, frame.n_mod)[2] + frame.n_mod
  /\ IsInverse(frame.value, frame.n_mod, frame.result)

(***************************************************************************)
(* new() on curves given in the form of twisted Edwards curves             *)
(***************************************************************************)

EdPrimes ==
  { p \in 5 .. MaxPrime : \A i \in 2 .. p - 1 : p % i # 0 }

\* e * u^2 + v^2 = 1 + d * u^2 * v^2 (mod p)
OnEdvards(p, e, d, u, v) ==
  (MulMod(e, MulMod(u, u, p), p) + MulMod(v, v, p)) % p
    = (1 + MulMod(d, MulMod(MulMod(u, u, p), MulMod(v, v, p), p), p)) % p

\* every e, d, u, v over the small primes; no object is returned for these, q
\* being below the range of the mode, but __init__ has converted by then
EdvardsSmall ==
  UNION { { [p |-> p, e |-> e, d |-> d, m |-> p + 1, q |-> p, u |-> u, v |-> v] :
              e \in 0 .. p - 1, d \in 0 .. p - 1, u \in 0 .. p - 1, v \in 0 .. p - 1 } :
          p \in EdPrimes }

\* the curve of Edvards512 with other points (u, v) of it
EdvardsPoints ==
  { [Edvards512 EXCEPT !.u = u, !.v = v] :
      u \in 1 .. 6,
      v \in { w \in 0 .. Edvards512.p - 1 :
                \E u \in 1 .. 6 : OnEdvards(Edvards512.p, Edvards512.e, Edvards512.d, u, w) } }

\* curves given in both forms: the canonical form that belongs to e, d, u, v,
\* and one that does not
Both512 ==
  { [p |-> 16427, e |-> 1, d |-> 5, m |-> 16444, q |-> 4111, u |-> 3, v |-> 4703,
     a |-> 16425, b |-> 1, x |-> 10406, y |-> 8944],
    [p |-> 4099, e |-> 1, d |-> 5, m |-> 4157, q |-> 4157, u |-> 3, v |-> 7,
     a |-> 1, b |-> 35, x |-> 2, y |-> 1812] }

EdCurves(mode) ==
  IF mode = MODE_256 THEN EdvardsSmall ELSE EdvardsPoints \cup Both512

EdInit ==
  /\ hasher = NoHasher
  /\ clone = NoHasher
  /\ sign_obj = NoSignObj
  /\ caller_key = NoKey
  /\ frame = NoFrame
  /\ calls = << >>

\* sign_obj = new(mode, curve)
EdNew(mode, curve) ==
  /\ calls = << >>
  /\ sign_obj' = SignNew(mode, curve)
  /\ calls' = << [op |-> "new", mode |-> mode, curve |-> curve] >>
  /\ UNCHANGED << hasher, clone, caller_key, frame >>

EdNext ==
  \E mode \in {MODE_256, MODE_512} : \E curve \in EdCurves(mode) : EdNew(mode, curve)

SpecEd == EdInit /\ [][EdNext]_vars

(***************************************************************************)
(* Properties of the conversion to the canonical form                      *)
(***************************************************************************)

\* x / y mod the prime p
Over(x, y, p) ==
  MulMod(x, RefInverse([_p |-> p], y), p)

CurveS(c) ==
  Over(c.e - c.d, 4, c.p)

CurveT(c) ==
  Over(c.e + c.d, 6, c.p)

\* a, b, x, y as the claim gives them
CurveA(c) ==
  (MulMod(CurveS(c), CurveS(c), c.p) - 3 * MulMod(CurveT(c), CurveT(c), c.p)) % c.p

CurveB(c) ==
  (2 * MulMod(CurveT(c), MulMod(CurveT(c), CurveT(c), c.p), c.p)
     - MulMod(CurveT(c), MulMod(CurveS(c), CurveS(c), c.p), c.p)) % c.p

CurveX(c) ==
  (Over(MulMod(CurveS(c), 1 + c.v, c.p), 1 - c.v, c.p) + CurveT(c)) % c.p

CurveY(c) ==
  Over(MulMod(CurveS(c), 1 + c.v, c.p), MulMod(1 - c.v, c.u, c.p), c.p)

\* y^2 = x^3 + a * x + b (mod p)
OnCanonical(self) ==
  MulMod(self._y, self._y, self._p)
    = (MulMod(self._x, MulMod(self._x, self._x, self._p), self._p)
         + MulMod(self._a, self._x, self._p) + self._b) % self._p

\* new() was called with e, d, u, v and without a, b, x, y
EdvardsRun ==
  calls # << >> /\ IsEdvardsOnly(calls[1].curve)

\* new() was called with both forms
BothRun ==
  calls # << >> /\ IsCanonical(calls[1].curve) /\ "e" \in DOMAIN calls[1].curve

\* C27: conversion of a twisted Edwards curve.  When only p, e, d, m, q, u, v
\* are given, the object has s = (e - d) / 4, t = (e + d) / 6, a = s^2 - 3 * t^2,
\* b = 2 * t^3 - t * s^2, x = s * (1 + v) / (1 - v) + t and
\* y = s * (1 + v) / ((1 - v) * u), all mod p, and where
\* e * u^2 + v^2 = 1 + d * u^2 * v^2 (mod p) with u # 0 and v # 1, (x, y) satisfies
\* y^2 = x^3 + a * x + b (mod p); when both forms are given, a, b, x, y are
\* those given.
C27_EdvardsToCanonical ==
  /\ EdvardsRun
       => /\ sign_obj.self._a = CurveA(calls[1].curve)
          /\ sign_obj.self._b = CurveB(calls[1].curve)
          /\ sign_obj.self._x = CurveX(calls[1].curve)
          /\ sign_obj.self._y = CurveY(calls[1].curve)
          /\ (/\ OnEdvards(calls[1].curve.p, calls[1].curve.e, calls[1].curve.d,
                           calls[1].curve.u, calls[1].curve.v)
              /\ calls[1].curve.u # 0
              /\ calls[1].curve.v # 1)
               => OnCanonical(sign_obj.self)
  /\ BothRun
       => /\ sign_obj.self._a = calls[1].curve.a
          /\ sign_obj.self._b = calls[1].curve.b
          /\ sign_obj.self._x = calls[1].curve.x
          /\ sign_obj.self._y = calls[1].curve.y

\* an object returned for a point (u, v) of a twisted Edwards curve other than
\* the one of the table
C27_Witness ==
  /\ EdvardsRun
  /\ sign_obj.raised = ""
  /\ calls[1].curve.u = 5
  /\ OnEdvards(calls[1].curve.p, calls[1].curve.e, calls[1].curve.d,
               calls[1].curve.u, calls[1].curve.v)
  /\ sign_obj.self._x = CurveX(calls[1].curve)
  /\ sign_obj.self._y # 0
  /\ OnCanonical(sign_obj.self)
=============================================================================
